---- MODULE Spec2Model ----
(***************************************************************************)
(* Matching and resolution core of dsr-compliance:                         *)
(*   src/src/section_mapper.py  (map_sections and its passes)              *)
(*   src/src/ib_resolver.py     (classify / expand / clean / resolve)      *)
(*   src/src/vector_store.py    (VectorStore: add / search / save / load)  *)
(*   src/src/chunker.py         (chunk_text)                               *)
(*                                                                         *)
(* Text is a sequence of symbols.  A symbol is one character (a digit, a   *)
(* punctuation mark, a blank) or one whole alphabetic word written as a    *)
(* single TLA+ string; every regular expression and string method of the   *)
(* source is translated symbol by symbol.                                  *)
(***************************************************************************)
EXTENDS Integers, Sequences, FiniteSets, TLC

VARIABLES
    dsr_sections,       \* map_sections argument: list of DSRSection
    template_sections,  \* map_sections argument: list of TemplateSection
    mapping_entries,    \* map_sections argument: list of MappingTableEntry
    vector_store,       \* map_sections argument: None or the store's metadata
    mappings,           \* the dict threaded through the passes
    vidx,               \* loop position inside _pass_vector
    output,             \* the list map_sections returns
    failed,             \* which provider call has failed: "none", "search", "llm"
    user_data,          \* _pass_api: what is sent to the reasoning provider
    result,             \* _pass_api: what llm.call_json returned
    required_sources,   \* resolve_sources argument: list of citation strings
    ib_index,           \* resolve_sources argument: the primary index
    pbrer_index,        \* resolve_sources argument: the secondary index or None
    literature_results, \* resolve_sources argument: the literature index or None
    results,            \* the list resolve_sources returns
    index,              \* VectorStore.index of each instance: its ntotal
    metadata,           \* VectorStore.metadata of each instance
    disk,               \* the two files of the snapshot in vector_index_dir
    call,               \* where each instance stands inside save or load
    returned,           \* the last finished call of the store and its outcome
    extracted,          \* clean_source_text: the text it is first called on
    cleanings,          \* clean_source_text: what successive calls returned
    citation,           \* _expand_compound_refs argument
    refs,               \* what _expand_compound_refs returned
    kinds,              \* classify_source of each element of refs
    tokens,             \* chunk_text: enc.encode(text)
    chunk_size,         \* chunk_text argument
    overlap,            \* chunk_text argument
    start,              \* chunk_text: loop variable
    chunks,             \* chunk_text: the list being built
    pc                  \* position inside the running call

api_vars == <<user_data, result>>
mapper_vars == <<dsr_sections, template_sections, mapping_entries, vector_store,
                 mappings, vidx, output, failed, api_vars>>
resolver_vars == <<required_sources, ib_index, pbrer_index, literature_results,
                   results>>
store_vars == <<index, metadata, disk, call, returned>>
text_vars == <<extracted, cleanings, citation, refs, kinds>>
chunk_vars == <<tokens, chunk_size, overlap, start, chunks>>
vars == <<mapper_vars, resolver_vars, store_vars, text_vars, chunk_vars, pc>>

(***************************************************************************)
(* Bounds of the model.                                                    *)
(***************************************************************************)
MaxDsr == 2
MaxTmpl == 2
MaxReply == 2
MaxRefs == 2

(***************************************************************************)
(* Symbols and the string methods the source uses.                         *)
(***************************************************************************)
None == "None"
NoneText == <<"None">>

LowerWords ==
    {"intro", "data", "safety", "ib", "pbrer", "section", "sections", "table",
     "uptodate", "medline", "embase", "company", "database", "signal",
     "assessment", "dosing", "and", "x", "periodic", "version", "number",
     "confidential", "shifts"}
Digits == {"0", "1", "2", "3", "5", "9"}
Blank == " "

\* str.lower() on one symbol
lower(c) ==
    CASE c = "Intro" -> "intro"
      [] c = "Data" -> "data"
      [] c = "Safety" -> "safety"
      [] c = "IB" -> "ib"
      [] c = "PBRER" -> "pbrer"
      [] c = "Section" -> "section"
      [] c = "Sections" -> "sections"
      [] c = "Table" -> "table"
      [] c = "UpToDate" -> "uptodate"
      [] c = "Dosing" -> "dosing"
      [] c = "Periodic" -> "periodic"
      [] c = "Version" -> "version"
      [] c = "Number" -> "number"
      [] c = "CONFIDENTIAL" -> "confidential"
      [] c = "Benefit-Risk" -> "benefit-risk"
      [] OTHER -> c

RECURSIVE lowerSeq(_)
lowerSeq(s) == IF s = <<>> THEN <<>> ELSE <<lower(Head(s))>> \o lowerSeq(Tail(s))

\* \s, \d and \w
IsSpace(c) == c = Blank \/ c = "\n"
IsDigit(c) == c \in Digits
IsWord(c) == IsDigit(c) \/ lower(c) \in LowerWords

\* the first / last character of the symbol is a \w character (for \b)
WordAtStart(c) == IsWord(c) \/ c \in {"Benefit-Risk", "Investigator's Brochure:"}
WordAtEnd(c) == IsWord(c) \/ c = "Benefit-Risk"

\* [a-z0-9\s]
IsNormChar(c) == c \in LowerWords \/ IsDigit(c) \/ IsSpace(c)

RECURSIVE lstrip(_)
lstrip(s) == IF s # <<>> /\ IsSpace(Head(s)) THEN lstrip(Tail(s)) ELSE s

RECURSIVE rstrip(_)
rstrip(s) ==
    IF s # <<>> /\ IsSpace(s[Len(s)]) THEN rstrip(SubSeq(s, 1, Len(s) - 1)) ELSE s

strip(s) == rstrip(lstrip(s))

\* str.split(): the maximal runs of non-blank symbols, in order.
RECURSIVE splitFrom(_, _, _)
splitFrom(s, i, cur) ==
    IF i > Len(s) THEN (IF cur = <<>> THEN <<>> ELSE <<cur>>)
    ELSE IF IsSpace(s[i])
         THEN (IF cur = <<>> THEN <<>> ELSE <<cur>>) \o splitFrom(s, i + 1, <<>>)
         ELSE splitFrom(s, i + 1, Append(cur, s[i]))

split(s) == splitFrom(s, 1, <<>>)

Range(s) == {s[i] : i \in 1..Len(s)}

Min(a, b) == IF a <= b THEN a ELSE b

Max(S) == CHOOSE x \in S : \A y \in S : y <= x

(***************************************************************************)
(* section_mapper.py: records.  DSRSection.file / .content and             *)
(* SectionMapping.dsr_file / .notes are copied through unread and are not  *)
(* carried.  Scores and confidences are in hundredths (1.0 is 100).        *)
(***************************************************************************)
DSRSection(num, title) == [section_num |-> num, title |-> title]
TemplateSection(id, title) == [section_id |-> id, title |-> title]
MappingTableEntry(id) == [dsr_section_id |-> id]
SectionMapping(ds, dt, ts, tt, method, conf) ==
    [dsr_section |-> ds, dsr_title |-> dt, template_section |-> ts,
     template_title |-> tt, match_method |-> method, confidence |-> conf]

DefaultConfidence == 0
FullConfidence == 100

\* re.sub(r"[^a-z0-9\s]", "", s.lower()).strip()
_normalize(s) == strip(SelectSeq(lowerSeq(s), IsNormChar))

\* A score is a fraction <<numerator, denominator>>; 0.0 is <<0, 1>>.
ScoreGreater(a, b) == a[1] * b[2] > b[1] * a[2]
FUZZY_THRESHOLD == 50
ScoreAtLeastPct(a, pct) == 100 * a[1] >= pct * a[2]

\* variant: the overlap divided by the larger word set
_keyword_overlap_by_max(a, b) ==
    LET words_a == Range(split(_normalize(a)))
        words_b == Range(split(_normalize(b)))
    IN  IF words_a = {} \/ words_b = {} THEN <<0, 1>>
        ELSE <<Cardinality(words_a \cap words_b),
               IF Cardinality(words_a) >= Cardinality(words_b)
               THEN Cardinality(words_a) ELSE Cardinality(words_b)>>

_keyword_overlap(a, b) ==
    LET words_a == Range(split(_normalize(a)))
        words_b == Range(split(_normalize(b)))
    IN  IF words_a = {} \/ words_b = {} THEN <<0, 1>>
        ELSE <<Cardinality(words_a \cap words_b),
               Min(Cardinality(words_a), Cardinality(words_b))>>

\* mappings[key] = value on a Python dict
DictSet(m, key, value) == (key :> value) @@ m

(***************************************************************************)
(* Pass 0: _pass_mapping_table                                             *)
(***************************************************************************)
\* {t.section_id: t for t in template_sections}: a later duplicate overwrites
tmpl_by_id(tmpl) ==
    [id \in {tmpl[i].section_id : i \in 1..Len(tmpl)} |->
        tmpl[Max({i \in 1..Len(tmpl) : tmpl[i].section_id = id})]]

\* {e.dsr_section_id: e for e in mapping_entries}
entry_by_id(entries) ==
    [id \in {entries[i].dsr_section_id : i \in 1..Len(entries)} |->
        entries[Max({i \in 1..Len(entries) : entries[i].dsr_section_id = id})]]

RECURSIVE MappingTableLoop(_, _, _, _, _)
MappingTableLoop(dsr, byId, byEntry, m, i) ==
    IF i > Len(dsr) THEN m
    ELSE LET d == dsr[i] IN
         IF d.section_num \in DOMAIN m
         THEN MappingTableLoop(dsr, byId, byEntry, m, i + 1)
         ELSE IF d.section_num \notin DOMAIN byEntry
         THEN MappingTableLoop(dsr, byId, byEntry, m, i + 1)
         ELSE LET entry == byEntry[d.section_num] IN
              IF entry.dsr_section_id \in DOMAIN byId
              THEN LET tmpl == byId[entry.dsr_section_id] IN
                   MappingTableLoop(dsr, byId, byEntry,
                       DictSet(m, d.section_num,
                           SectionMapping(d.section_num, d.title, tmpl.section_id,
                                          tmpl.title, "mapping_table", FullConfidence)),
                       i + 1)
              ELSE MappingTableLoop(dsr, byId, byEntry, m, i + 1)

\* variant: Pass 0 without `if d.section_num in mappings: continue`
_pass_mapping_table_overwriting(dsr, tmpl, entries, m) ==
    MappingTableLoop(dsr, tmpl_by_id(tmpl), entry_by_id(entries), <<>>, 1) @@ m

\* variant: Pass 0 that assigns nothing
_pass_mapping_table_idle(dsr, tmpl, entries, m) == m

_pass_mapping_table(dsr, tmpl, entries, m) ==
    MappingTableLoop(dsr, tmpl_by_id(tmpl), entry_by_id(entries), m, 1)

(***************************************************************************)
(* Pass 1: _pass_exact                                                     *)
(***************************************************************************)
\* for t in template_sections: tmpl_by_title[_normalize(t.title)] = t
tmpl_by_title(tmpl) ==
    [nt \in {_normalize(tmpl[i].title) : i \in 1..Len(tmpl)} |->
        tmpl[Max({i \in 1..Len(tmpl) : _normalize(tmpl[i].title) = nt})]]

RECURSIVE ExactLoop(_, _, _, _)
ExactLoop(dsr, byTitle, m, i) ==
    IF i > Len(dsr) THEN m
    ELSE LET d == dsr[i]
             norm_title == _normalize(d.title)
         IN  IF d.section_num \in DOMAIN m
             THEN ExactLoop(dsr, byTitle, m, i + 1)
             ELSE IF norm_title \in DOMAIN byTitle
             THEN LET t == byTitle[norm_title] IN
                  ExactLoop(dsr, byTitle,
                      DictSet(m, d.section_num,
                          SectionMapping(d.section_num, d.title, t.section_id,
                                         t.title, "exact_title", DefaultConfidence)),
                      i + 1)
             ELSE ExactLoop(dsr, byTitle, m, i + 1)

_pass_exact(dsr, tmpl, m) == ExactLoop(dsr, tmpl_by_title(tmpl), m, 1)

(***************************************************************************)
(* Pass 2 (no store): _pass_fuzzy                                          *)
(***************************************************************************)
\* the inner loop: <<best_score, index of best_tmpl (0 is None)>>
RECURSIVE BestTemplate(_, _, _, _)
BestTemplate(title, tmpl, j, best) ==
    IF j > Len(tmpl) THEN best
    ELSE LET score == _keyword_overlap(title, tmpl[j].title) IN
         IF ScoreGreater(score, best[1])
         THEN BestTemplate(title, tmpl, j + 1, <<score, j>>)
         ELSE BestTemplate(title, tmpl, j + 1, best)

RECURSIVE FuzzyLoop(_, _, _, _)
FuzzyLoop(dsr, tmpl, m, i) ==
    IF i > Len(dsr) THEN m
    ELSE LET d == dsr[i] IN
         IF d.section_num \in DOMAIN m
         THEN FuzzyLoop(dsr, tmpl, m, i + 1)
         ELSE LET best == BestTemplate(d.title, tmpl, 1, <<(<<0, 1>>), 0>>) IN
              IF best[2] # 0 /\ ScoreAtLeastPct(best[1], FUZZY_THRESHOLD)
              THEN FuzzyLoop(dsr, tmpl,
                       DictSet(m, d.section_num,
                           SectionMapping(d.section_num, d.title,
                                          tmpl[best[2]].section_id, tmpl[best[2]].title,
                                          "title_match", DefaultConfidence)),
                       i + 1)
              ELSE FuzzyLoop(dsr, tmpl, m, i + 1)

_pass_fuzzy(dsr, tmpl, m) == FuzzyLoop(dsr, tmpl, m, 1)

(***************************************************************************)
(* vector_store.py: VectorStore.search.  `ntotal` is the number of vectors *)
(* in the FAISS index and `meta` the metadata list.  The embedding of the  *)
(* query and the inner products are the embedding provider's: `ranked` is  *)
(* what index.search returns, the search_k best <<score, idx>> pairs by    *)
(* descending score.  self.metadata[idx] past the end of the list raises   *)
(* IndexError, which search does not catch.                                *)
(***************************************************************************)
Metadata(src, id, title) == [source_type |-> src, section_id |-> id, title |-> title]

\* how a call of the store ends: `return v` or `raise e`
Returns(v) == [raised |-> None, value |-> v]
Raises(e) == [raised |-> e, value |-> None]

search_k(ntotal, k, filter_source) ==
    IF filter_source # None THEN Min(k * 3, ntotal) ELSE Min(k, ntotal)

RECURSIVE SearchLoop(_, _, _, _, _, _)
SearchLoop(meta, ranked, k, filter_source, j, res) ==
    IF j > Len(ranked) THEN Returns(res)
    ELSE LET score == ranked[j][1]
             idx == ranked[j][2]
         IN  IF idx < 1
             THEN SearchLoop(meta, ranked, k, filter_source, j + 1, res)
             ELSE IF idx > Len(meta) THEN Raises("IndexError")
             ELSE IF filter_source # None /\ meta[idx].source_type # filter_source
             THEN SearchLoop(meta, ranked, k, filter_source, j + 1, res)
             ELSE LET r == Append(res, [metadata |-> meta[idx], score |-> score]) IN
                  IF Len(r) >= k THEN Returns(r)
                  ELSE SearchLoop(meta, ranked, k, filter_source, j + 1, r)

\* the loop without its `break`: every candidate that passes the filter
search_without_break(ntotal, meta, ranked, k, filter_source) ==
    IF ntotal = 0 THEN Returns(<<>>)
    ELSE SearchLoop(meta, ranked, Len(ranked) + 1, filter_source, 1, <<>>)

search(ntotal, meta, ranked, k, filter_source) ==
    IF ntotal = 0 THEN Returns(<<>>)
    ELSE SearchLoop(meta, ranked, k, filter_source, 1, <<>>)

\* What index.search can return for n stored vectors: `n_best` distinct
\* positions, scores from Scores in non-increasing order.
Scores == {60, 80}
Rankings(n, n_best) ==
    LET scores == {sc \in [1..n_best -> Scores] :
                      \A a, b \in 1..n_best : a < b => sc[a] >= sc[b]}
        places == {at \in [1..n_best -> 1..n] :
                      \A a, b \in 1..n_best : a # b => at[a] # at[b]}
    IN  {[j \in 1..n_best |-> <<sc[j], at[j]>>] : sc \in scores, at \in places}

(***************************************************************************)
(* Pass 2 (store given): _pass_vector, one DSR section per step            *)
(***************************************************************************)
VECTOR_THRESHOLD == 75
VectorK == 3

\* variant: a section the search does not map gets a keyword-overlap record
VectorAssign_with_fallback(d, res, m) ==
    IF res # <<>> /\ res[1].score >= VECTOR_THRESHOLD
    THEN DictSet(m, d.section_num,
             SectionMapping(d.section_num, d.title, res[1].metadata.section_id,
                            res[1].metadata.title, "vector_similarity", res[1].score))
    ELSE DictSet(m, d.section_num,
             SectionMapping(d.section_num, d.title, None, NoneText, "title_match",
                            DefaultConfidence))

\* the body of the loop for section d, given the res of the search
VectorAssign(d, res, m) ==
    IF res # <<>> /\ res[1].score >= VECTOR_THRESHOLD
    THEN LET best == res[1] IN
         DictSet(m, d.section_num,
             SectionMapping(d.section_num, d.title, best.metadata.section_id,
                            best.metadata.title, "vector_similarity", best.score))
    ELSE m

(***************************************************************************)
(* Pass 3: _pass_api                                                       *)
(***************************************************************************)
\* user_data as built at the call, and its value while no call was made
NoUserData == [sent |-> FALSE, unmatched_dsr_sections |-> <<>>,
               template_sections |-> <<>>]
UserData(unm, tmpl) == [sent |-> TRUE, unmatched_dsr_sections |-> unm,
                        template_sections |-> tmpl]
\* the dict llm.call_json returns
Result(matches) == [matches |-> matches]

ApiMatch(dsn, ts, tt, method) ==
    [dsr_section |-> dsn, template_section |-> ts, template_title |-> tt,
     match_method |-> method]

unmatched(dsr, m) == SelectSeq(dsr, LAMBDA d : d.section_num \notin DOMAIN m)

\* next((d for d in unmatched if d.section_num == dsn), None): its title, or ""
DsrTitleOf(unm, dsn) ==
    LET hits == {i \in 1..Len(unm) : unm[i].section_num = dsn} IN
    IF hits = {} THEN <<>> ELSE unm[CHOOSE i \in hits : \A j \in hits : i <= j].title

RECURSIVE ApiLoop(_, _, _, _)
ApiLoop(matches, unm, m, j) ==
    IF j > Len(matches) THEN m
    ELSE LET dsn == matches[j].dsr_section IN
         IF dsn = "" \/ dsn \in DOMAIN m
         THEN ApiLoop(matches, unm, m, j + 1)
         ELSE ApiLoop(matches, unm,
                  DictSet(m, dsn,
                      SectionMapping(dsn, DsrTitleOf(unm, dsn),
                                     matches[j].template_section,
                                     matches[j].template_title,
                                     matches[j].match_method, DefaultConfidence)),
                  j + 1)

\* variant: a match is recorded only when it names a section that was sent
_pass_api_validating(dsr, m, matches) ==
    LET unm == unmatched(dsr, m) IN
    ApiLoop(SelectSeq(matches,
                LAMBDA x : \E i \in 1..Len(unm) : unm[i].section_num = x.dsr_section),
            unm, m, 1)

\* the part of _pass_api after llm.call_json has returned `matches`
_pass_api(dsr, m, matches) == ApiLoop(matches, unmatched(dsr, m), m, 1)

(***************************************************************************)
(* map_sections: residual records and the returned list                    *)
(***************************************************************************)
RECURSIVE ResidualLoop(_, _, _)
ResidualLoop(dsr, m, i) ==
    IF i > Len(dsr) THEN m
    ELSE LET d == dsr[i] IN
         IF d.section_num \notin DOMAIN m
         THEN ResidualLoop(dsr,
                  DictSet(m, d.section_num,
                      SectionMapping(d.section_num, d.title, None, NoneText,
                                     "no_match", DefaultConfidence)),
                  i + 1)
         ELSE ResidualLoop(dsr, m, i + 1)

\* variant: map_sections without the residual loop
residual_skipped(dsr, m) == m

residual(dsr, m) == ResidualLoop(dsr, m, 1)

\* [mappings[sn] for sn in section_order if sn in mappings]
RECURSIVE OrderedFrom(_, _, _)
OrderedFrom(dsr, m, i) ==
    IF i > Len(dsr) THEN <<>>
    ELSE IF dsr[i].section_num \in DOMAIN m
         THEN <<m[dsr[i].section_num]>> \o OrderedFrom(dsr, m, i + 1)
         ELSE OrderedFrom(dsr, m, i + 1)

in_section_order(dsr, m) == OrderedFrom(dsr, m, 1)

(***************************************************************************)
(* ib_resolver.py: the citation patterns.  NoMatch stands for a failed     *)
(* re.match; a match is given by its group(1).                             *)
(***************************************************************************)
NoMatch == <<"NoMatch">>

\* first position >= i that holds no white space (Len(s) + 1 at the end)
RECURSIVE SkipSpaces(_, _)
SkipSpaces(s, i) ==
    IF i <= Len(s) /\ IsSpace(s[i]) THEN SkipSpaces(s, i + 1) ELSE i

RECURSIVE SkipDigits(_, _)
SkipDigits(s, i) ==
    IF i <= Len(s) /\ IsDigit(s[i]) THEN SkipDigits(s, i + 1) ELSE i

\* after the longest (?:\.\d+)* at i
RECURSIVE SkipDotGroups(_, _)
SkipDotGroups(s, i) ==
    IF i + 1 <= Len(s) /\ s[i] = "." /\ IsDigit(s[i + 1])
    THEN SkipDotGroups(s, SkipDigits(s, i + 1))
    ELSE i

\* after the longest \d+(?:\.\d+)* at i; i itself when there is none
NumberEnd(s, i) ==
    IF i <= Len(s) /\ IsDigit(s[i]) THEN SkipDotGroups(s, SkipDigits(s, i)) ELSE i

HasKeyword(s, i, words) == i <= Len(s) /\ lower(s[i]) \in words

Suffix(s, i) == SubSeq(s, i, Len(s))

\* \s*(?:\(.*\))?\s*$ matches the whole of t
TailMatches(t) ==
    LET u == strip(t) IN
    u = <<>> \/ (Len(u) >= 2 /\ u[1] = "(" /\ u[Len(u)] = ")")

\* ^\s*<doc>\s*(?:Sections?\s*)?(\d+(?:\.\d+)*)\s*(?:\(.*\))?\s*$   (IGNORECASE)
SectionPattern(source, doc) ==
    LET i1 == SkipSpaces(source, 1) IN
    IF ~HasKeyword(source, i1, {doc}) THEN NoMatch
    ELSE LET i2 == SkipSpaces(source, i1 + 1)
             i3 == IF HasKeyword(source, i2, {"section", "sections"})
                   THEN SkipSpaces(source, i2 + 1) ELSE i2
             e == NumberEnd(source, i3)
         IN  IF e > i3 /\ TailMatches(Suffix(source, e))
             THEN SubSeq(source, i3, e - 1)
             ELSE NoMatch

_IB_SECTION_RE(source) == SectionPattern(source, "ib")
_PBRER_SECTION_RE(source) == SectionPattern(source, "pbrer")

\* ^\s*IB\s*Table\s*(\d+)   (IGNORECASE, a prefix match)
_IB_TABLE_RE(source) ==
    LET i1 == SkipSpaces(source, 1) IN
    IF ~HasKeyword(source, i1, {"ib"}) THEN NoMatch
    ELSE LET i2 == SkipSpaces(source, i1 + 1) IN
         IF ~HasKeyword(source, i2, {"table"}) THEN NoMatch
         ELSE LET i3 == SkipSpaces(source, i2 + 1)
                  e == SkipDigits(source, i3)
              IN  IF e > i3 THEN SubSeq(source, i3, e - 1) ELSE NoMatch

\* ^\s*IB\s*$   (IGNORECASE)
_IB_BARE_RE(source) ==
    LET i1 == SkipSpaces(source, 1) IN
    HasKeyword(source, i1, {"ib"}) /\ SkipSpaces(source, i1 + 1) > Len(source)

\* kw in text
IsSubstring(kw, text) ==
    \E i \in 1..(Len(text) - Len(kw) + 1) : SubSeq(text, i, i + Len(kw) - 1) = kw

_EXTERNAL_KEYWORDS ==
    {<<"uptodate">>, <<"medline">>, <<"embase">>,
     <<"company", " ", "safety", " ", "database">>,
     <<"signal", " ", "assessment">>}

\* classify_source with the external keywords tried before the PBRER prefix
classify_source_keywords_first(source) ==
    IF _IB_SECTION_RE(source) # NoMatch THEN <<"ib", _IB_SECTION_RE(source)>>
    ELSE IF _IB_TABLE_RE(source) # NoMatch THEN <<"ib_table", _IB_TABLE_RE(source)>>
    ELSE IF _IB_BARE_RE(source) THEN <<"ib", NoneText>>
    ELSE IF _PBRER_SECTION_RE(source) # NoMatch
         THEN <<"pbrer", _PBRER_SECTION_RE(source)>>
    ELSE LET stripped == strip(source) IN
         IF \E kw \in _EXTERNAL_KEYWORDS : IsSubstring(kw, lowerSeq(stripped))
         THEN <<"external", NoneText>>
         ELSE IF stripped # <<>> /\ lower(stripped[1]) = "pbrer"
              THEN <<"pbrer", NoneText>>
              ELSE <<"unknown", NoneText>>

(***************************************************************************)
(* classify_source: <<source_type, section_number>>, the number NoneText   *)
(* when the source returns None for it.                                    *)
(***************************************************************************)
classify_source(source) ==
    IF _IB_SECTION_RE(source) # NoMatch THEN <<"ib", _IB_SECTION_RE(source)>>
    ELSE IF _IB_TABLE_RE(source) # NoMatch THEN <<"ib_table", _IB_TABLE_RE(source)>>
    ELSE IF _IB_BARE_RE(source) THEN <<"ib", NoneText>>
    ELSE IF _PBRER_SECTION_RE(source) # NoMatch
         THEN <<"pbrer", _PBRER_SECTION_RE(source)>>
    ELSE LET stripped == strip(source) IN
         IF stripped # <<>> /\ lower(stripped[1]) = "pbrer" THEN <<"pbrer", NoneText>>
         ELSE IF \E kw \in _EXTERNAL_KEYWORDS : IsSubstring(kw, lowerSeq(stripped))
              THEN <<"external", NoneText>>
              ELSE <<"unknown", NoneText>>

(***************************************************************************)
(* clean_source_text.  A pattern is given by the end (exclusive) of its    *)
(* match at position i of the text, 0 when it does not match there.        *)
(***************************************************************************)
\* ^ under re.MULTILINE
AtLineStart(s, i) == i = 1 \/ s[i - 1] = "\n"

\* the end of the line that holds position i
RECURSIVE EndOfLine(_, _)
EndOfLine(s, i) == IF i <= Len(s) /\ s[i] # "\n" THEN EndOfLine(s, i + 1) ELSE i

\* \s*$ under re.MULTILINE from position k: the greedy \s* runs to the end
\* of the text, or else back to the last line break it has passed
TrailingSpaceEnd(s, k) ==
    LET w == SkipSpaces(s, k)
        breaks == {e \in k..(w - 1) : s[e] = "\n"}
    IN  IF w > Len(s) THEN Len(s) + 1
        ELSE IF breaks # {} THEN Max(breaks)
        ELSE 0

\* \w+
RECURSIVE SkipWord(_, _)
SkipWord(s, i) == IF i <= Len(s) /\ IsWord(s[i]) THEN SkipWord(s, i + 1) ELSE i

\* ^Investigator's Brochure:.*$
HeaderLineAt(s, i) ==
    IF AtLineStart(s, i) /\ s[i] = "Investigator's Brochure:"
    THEN EndOfLine(s, i + 1) ELSE 0

\* ^\s*CONFIDENTIAL\s*$
BannerLineAt(s, i) ==
    LET j == SkipSpaces(s, i) IN
    IF AtLineStart(s, i) /\ j <= Len(s) /\ s[j] = "CONFIDENTIAL"
    THEN TrailingSpaceEnd(s, j + 1) ELSE 0

\* ^Version\s+Number\s+\d+,\s+\w+\s+\d{4}\s*$
VersionLineAt(s, i) ==
    LET j1 == SkipSpaces(s, i + 1)
        j2 == SkipSpaces(s, j1 + 1)
        j3 == SkipDigits(s, j2)
        j4 == SkipSpaces(s, j3 + 1)
        j5 == SkipWord(s, j4)
        j6 == SkipSpaces(s, j5)
        j7 == SkipDigits(s, j6)
    IN  IF /\ AtLineStart(s, i) /\ s[i] = "Version"
           /\ j1 > i + 1 /\ j1 <= Len(s) /\ s[j1] = "Number"
           /\ j2 > j1 + 1 /\ j3 > j2
           /\ j3 <= Len(s) /\ s[j3] = ","
           /\ j4 > j3 + 1 /\ j5 > j4 /\ j6 > j5
           /\ j7 = j6 + 4
        THEN TrailingSpaceEnd(s, j7) ELSE 0

\* ^\s*\d{1,3}\s*$
PageNumberLineAt(s, i) ==
    LET j == SkipSpaces(s, i)
        d == SkipDigits(s, j)
    IN  IF AtLineStart(s, i) /\ d > j /\ d - j <= 3
        THEN TrailingSpaceEnd(s, d) ELSE 0

\* (?:^|\n)\s*\d{1,3}\s*\n\s*\d{1,3}\s*(?:\n|$)   (not MULTILINE)
PageFooterPairAt(s, i) ==
    LET c == IF i = 1 /\ s[1] # "\n" THEN 1 ELSE i + 1
        j == SkipSpaces(s, c)
        d1 == SkipDigits(s, j)
        m == SkipSpaces(s, d1)
        d2 == SkipDigits(s, m)
        w == SkipSpaces(s, d2)
        breaks == {e \in d2..(w - 1) : s[e] = "\n"}
    IN  IF /\ (i = 1 \/ s[i] = "\n")
           /\ d1 > j /\ d1 - j <= 3
           /\ \E e \in d1..(m - 1) : s[e] = "\n"
           /\ d2 > m /\ d2 - m <= 3
        THEN (IF w > Len(s) THEN Len(s) + 1
              ELSE IF breaks # {} THEN Max(breaks) + 1
              ELSE 0)
        ELSE 0

\* ^Periodic\s+Benefit[\-\u2010\u2013]Risk.*$   (IGNORECASE)
PbrerHeaderLineAt(s, i) ==
    LET j == SkipSpaces(s, i + 1) IN
    IF /\ AtLineStart(s, i) /\ lower(s[i]) = "periodic"
       /\ j > i + 1 /\ j <= Len(s) /\ lower(s[j]) = "benefit-risk"
    THEN EndOfLine(s, j + 1) ELSE 0

\* the list _BOILERPLATE_PATTERNS, by position
NumPatterns == 6
_BOILERPLATE_PATTERNS(k, s, i) ==
    CASE k = 1 -> HeaderLineAt(s, i)
      [] k = 2 -> BannerLineAt(s, i)
      [] k = 3 -> VersionLineAt(s, i)
      [] k = 4 -> PageNumberLineAt(s, i)
      [] k = 5 -> PageFooterPairAt(s, i)
      [] k = 6 -> PbrerHeaderLineAt(s, i)

\* pattern.sub("", text): the matches found left to right are dropped
RECURSIVE PatternSub(_, _, _)
PatternSub(k, s, i) ==
    IF i > Len(s) THEN <<>>
    ELSE LET e == _BOILERPLATE_PATTERNS(k, s, i) IN
         IF e > i THEN PatternSub(k, s, e)
         ELSE <<s[i]>> \o PatternSub(k, s, i + 1)

RECURSIVE ApplyPatterns(_, _)
ApplyPatterns(k, s) ==
    IF k > NumPatterns THEN s ELSE ApplyPatterns(k + 1, PatternSub(k, s, 1))

RECURSIVE SkipBreaks(_, _)
SkipBreaks(s, i) == IF i <= Len(s) /\ s[i] = "\n" THEN SkipBreaks(s, i + 1) ELSE i

\* re.sub(r"\n{3,}", "\n\n", text)
RECURSIVE CollapseBlankLines(_, _)
CollapseBlankLines(s, i) ==
    IF i > Len(s) THEN <<>>
    ELSE LET e == SkipBreaks(s, i) IN
         IF e - i >= 3 THEN <<"\n", "\n">> \o CollapseBlankLines(s, e)
         ELSE <<s[i]>> \o CollapseBlankLines(s, i + 1)

clean_source_text(text) == strip(CollapseBlankLines(ApplyPatterns(1, text), 1))

(***************************************************************************)
(* _expand_compound_refs                                                   *)
(***************************************************************************)
\* re.sub(r"\([^)]*\)", "", s): every "(" with a later ")" goes, up to the
\* first such ")"
RECURSIVE RemoveParentheticals(_)
RemoveParentheticals(s) ==
    IF s = <<>> THEN <<>>
    ELSE IF Head(s) = "(" /\ \E j \in 2..Len(s) : s[j] = ")"
         THEN LET close == CHOOSE j \in 2..Len(s) :
                               s[j] = ")" /\ \A h \in 2..(j - 1) : s[h] # ")"
              IN  RemoveParentheticals(Suffix(s, close + 1))
         ELSE <<Head(s)>> \o RemoveParentheticals(Tail(s))

\* [\d.,\s/&]
IsListChar(c) == IsDigit(c) \/ IsSpace(c) \/ c \in {".", ",", "/", "&"}

RECURSIVE SkipListChars(_, _)
SkipListChars(s, i) ==
    IF i <= Len(s) /\ IsListChar(s[i]) THEN SkipListChars(s, i + 1) ELSE i

\* ([\d.,\s/&]+(?:\.\d+)*.*?)\s*(?:\(.*\))?\s*$ with the white space before
\* it ending at b, the keyword before that ending at a: the greedy \s* gives
\* one blank back when no list character follows it; the lazy .*? stops at the
\* first position from which the tail pattern matches
ListGroup(s, a, b) ==
    LET first == IF b <= Len(s) /\ IsListChar(s[b]) THEN b
                 ELSE IF b > a THEN b - 1 ELSE 0
    IN  IF first = 0 THEN NoMatch
        ELSE LET run_end == SkipListChars(s, first)
                 stop == CHOOSE q \in run_end..(Len(s) + 1) :
                             /\ TailMatches(Suffix(s, q))
                             /\ \A h \in run_end..(q - 1) : ~TailMatches(Suffix(s, h))
             IN  SubSeq(s, first, stop - 1)

\* ^\s*IB\s*Sections?\s*([\d.,\s/&]+(?:\.\d+)*.*?)\s*(?:\(.*\))?\s*$
_COMPOUND_IB_RE(s) ==
    LET i1 == SkipSpaces(s, 1) IN
    IF ~HasKeyword(s, i1, {"ib"}) THEN NoMatch
    ELSE LET i2 == SkipSpaces(s, i1 + 1) IN
         IF ~HasKeyword(s, i2, {"section", "sections"}) THEN NoMatch
         ELSE ListGroup(s, i2 + 1, SkipSpaces(s, i2 + 1))

\* ^\s*PBRER\s*(?:Sections?\s*)?([\d.,\s/&]+(?:\.\d+)*.*?)\s*(?:\(.*\))?\s*$
\* the optional keyword is tried first, then the pattern without it
_COMPOUND_PBRER_RE(s) ==
    LET i1 == SkipSpaces(s, 1) IN
    IF ~HasKeyword(s, i1, {"pbrer"}) THEN NoMatch
    ELSE LET i2 == SkipSpaces(s, i1 + 1)
             with == IF HasKeyword(s, i2, {"section", "sections"})
                     THEN ListGroup(s, i2 + 1, SkipSpaces(s, i2 + 1))
                     ELSE NoMatch
         IN  IF with # NoMatch THEN with ELSE ListGroup(s, i1 + 1, i2)

\* a separator of re.split(r"[,&/]|\band\b", s) at position i
IsSeparator(s, i) ==
    \/ s[i] \in {",", "&", "/"}
    \/ /\ s[i] = "and"
       /\ (i = 1 \/ ~WordAtEnd(s[i - 1]))
       /\ (i = Len(s) \/ ~WordAtStart(s[i + 1]))

RECURSIVE SplitList(_, _, _)
SplitList(s, i, cur) ==
    IF i > Len(s) THEN <<cur>>
    ELSE IF IsSeparator(s, i) THEN <<cur>> \o SplitList(s, i + 1, <<>>)
         ELSE SplitList(s, i + 1, Append(cur, s[i]))

\* re.match(r"^\d+(?:\.\d+)*$", n)
IsDottedNumber(n) == n # <<>> /\ IsDigit(n[1]) /\ NumberEnd(n, 1) = Len(n) + 1

\* the loop over nums: one qualified reference per dotted number
RECURSIVE QualifiedRefs(_, _, _)
QualifiedRefs(nums, i, prefix) ==
    IF i > Len(nums) THEN <<>>
    ELSE LET n == strip(nums[i]) IN
         (IF IsDottedNumber(n) THEN <<prefix \o n>> ELSE <<>>)
             \o QualifiedRefs(nums, i + 1, prefix)

\* _expand_compound_refs qualifying every list item, a dotted number or not
_expand_compound_refs_every_item(ref) ==
    LET cleaned == strip(RemoveParentheticals(strip(ref)))
        ib == _COMPOUND_IB_RE(cleaned)
        pb == _COMPOUND_PBRER_RE(cleaned)
        items == SplitList(IF ib # NoMatch THEN ib ELSE pb, 1, <<>>)
        prefix == IF ib # NoMatch THEN <<"IB", " ", "Section", " ">>
                  ELSE <<"PBRER", " ">>
    IN  IF (ib # NoMatch \/ pb # NoMatch) /\ Len(items) > 1
        THEN [j \in 1..Len(items) |-> prefix \o strip(items[j])]
        ELSE <<ref>>

_expand_compound_refs(ref) ==
    LET stripped == strip(ref)
        cleaned == strip(RemoveParentheticals(stripped))
        ib == _COMPOUND_IB_RE(cleaned)
        ib_result == IF ib = NoMatch THEN <<>>
                     ELSE QualifiedRefs(SplitList(ib, 1, <<>>), 1,
                                        <<"IB", " ", "Section", " ">>)
        pb == _COMPOUND_PBRER_RE(cleaned)
        pb_result == IF pb = NoMatch THEN <<>>
                     ELSE QualifiedRefs(SplitList(pb, 1, <<>>), 1, <<"PBRER", " ">>)
    IN  IF Len(ib_result) > 1 THEN ib_result
        ELSE IF Len(pb_result) > 1 THEN pb_result
        ELSE <<ref>>

(***************************************************************************)
(* resolve_sources.  An index is a dict in insertion order: a sequence of  *)
(* <<key, text>> pairs with distinct keys; an optional index that was not  *)
(* passed is NoIndex.                                                      *)
(***************************************************************************)
NoIndex == [given |-> FALSE, items |-> <<>>]
Index(items) == [given |-> TRUE, items |-> items]

HasKey(items, key) == \E i \in 1..Len(items) : items[i][1] = key
\* dict.get(key) for a key the dict holds
Lookup(items, key) == items[CHOOSE i \in 1..Len(items) : items[i][1] = key][2]

ResolvedSource(ref, type, num, content, found) ==
    [original_ref |-> ref, source_type |-> type, section_num |-> num,
     content |-> content, found |-> found]

NEEDED == "[ADDITIONAL DATA NEEDED:"

\* re.search(rf"\bTable\s*{re.escape(table_num)}\b", content)
MentionsTable(content, table_num) ==
    \E i \in 1..Len(content) :
        /\ content[i] = "Table"
        /\ (i = 1 \/ ~WordAtEnd(content[i - 1]))
        /\ LET j == SkipSpaces(content, i + 1)
               e == j + Len(table_num)
           IN  /\ e - 1 <= Len(content)
               /\ SubSeq(content, j, e - 1) = table_num
               /\ (e > Len(content) \/ ~WordAtStart(content[e]))

\* variant: the table scan without `break`, the last matching entry winning
resolve_ib_table_last_match(res, ref, table_num, ib_idx) ==
    LET hits == {i \in 1..Len(ib_idx) : MentionsTable(ib_idx[i][2], table_num)} IN
    IF hits # {}
    THEN LET found_content == ib_idx[CHOOSE i \in hits : \A h \in hits : i >= h][2] IN
         Append(res,
             ResolvedSource(ref, "ib", NoneText, clean_source_text(found_content), TRUE))
    ELSE Append(res,
             ResolvedSource(ref, "ib", NoneText,
                 <<NEEDED, " ", "IB", " ", "Table", " ">> \o table_num
                     \o <<" ", "was referenced but could not be located in the extracted",
                          " ", "IB", " ", "content", ".", "]">>,
                 FALSE))

\* variant: the table branch recording the classifier's type and number
resolve_ib_table_as_classified(res, ref, table_num, ib_idx) ==
    LET hits == {i \in 1..Len(ib_idx) : MentionsTable(ib_idx[i][2], table_num)} IN
    IF hits # {}
    THEN LET found_content == ib_idx[CHOOSE i \in hits : \A h \in hits : i <= h][2] IN
         Append(res,
             ResolvedSource(ref, "ib_table", table_num,
                            clean_source_text(found_content), TRUE))
    ELSE Append(res,
             ResolvedSource(ref, "ib_table", table_num,
                 <<NEEDED, " ", "IB", " ", "Table", " ">> \o table_num
                     \o <<" ", "was referenced but could not be located in the extracted",
                          " ", "IB", " ", "content", ".", "]">>,
                 FALSE))

\* source_type == "ib_table"
resolve_ib_table(res, ref, table_num, ib_idx) ==
    LET hits == {i \in 1..Len(ib_idx) : MentionsTable(ib_idx[i][2], table_num)} IN
    IF hits # {} /\ ib_idx[CHOOSE i \in hits : \A h \in hits : i <= h][2] # <<>>
    THEN LET found_content == ib_idx[CHOOSE i \in hits : \A h \in hits : i <= h][2] IN
         Append(res,
             ResolvedSource(ref, "ib", NoneText, clean_source_text(found_content), TRUE))
    ELSE Append(res,
             ResolvedSource(ref, "ib", NoneText,
                 <<NEEDED, " ", "IB", " ", "Table", " ">> \o table_num
                     \o <<" ", "was referenced but could not be located in the extracted",
                          " ", "IB", " ", "content", ".", "]">>,
                 FALSE))

\* variant: the ib branch returning the index text as stored
resolve_ib_raw(res, ref, section_num, ib_idx) ==
    IF section_num # NoneText /\ HasKey(ib_idx, section_num)
    THEN Append(res, ResolvedSource(ref, "ib", section_num,
                                    Lookup(ib_idx, section_num), TRUE))
    ELSE Append(res, ResolvedSource(ref, "ib", section_num,
                                    <<NEEDED, " ", "IB", " ", "Section", ".", "]">>,
                                    FALSE))

\* variant: the ib branch with a placeholder that does not name the section
resolve_ib_generic(res, ref, section_num, ib_idx) ==
    IF section_num # NoneText /\ HasKey(ib_idx, section_num)
    THEN Append(res, ResolvedSource(ref, "ib", section_num,
                                    clean_source_text(Lookup(ib_idx, section_num)),
                                    TRUE))
    ELSE Append(res, ResolvedSource(ref, "ib", section_num,
                                    <<NEEDED, " ", "IB", " ", "Section",
                                      " ", "was referenced but not found", ".", "]">>,
                                    FALSE))

\* source_type == "ib"
resolve_ib(res, ref, section_num, ib_idx) ==
    IF section_num # NoneText
    THEN IF HasKey(ib_idx, section_num)
         THEN Append(res,
                  ResolvedSource(ref, "ib", section_num,
                                 clean_source_text(Lookup(ib_idx, section_num)), TRUE))
         ELSE Append(res,
                  ResolvedSource(ref, "ib", section_num,
                      <<NEEDED, " ", "IB", " ", "Section", " ">> \o section_num
                          \o <<" ", "was referenced but not found in the extracted", " ",
                               "IB", " ", "index", ".", " ",
                               "Provide the content from Investigator's Brochure section",
                               " ">>
                          \o section_num \o <<".", "]">>,
                      FALSE))
    ELSE Append(res,
             ResolvedSource(ref, "ib", NoneText,
                 <<NEEDED, " ",
                   "The Investigator's Brochure was referenced without a specific section number",
                   ".", " ", "Review the", " ", "IB", " ",
                   "and provide the relevant content for this section", ".", "]">>,
                 FALSE))

\* variant: the pbrer branch without `continue` after a resolved record
resolve_pbrer_fallthrough(res, ref, section_num, pbrer_idx) ==
    LET placeholder == ResolvedSource(ref, "pbrer", section_num,
                           <<NEEDED, " ", "PBRER", " ", "Section", " ">> \o section_num
                               \o <<".", "]">>, FALSE)
    IN  IF /\ pbrer_idx.given /\ section_num # NoneText
           /\ HasKey(pbrer_idx.items, section_num)
        THEN res \o <<ResolvedSource(ref, "pbrer", section_num,
                          clean_source_text(Lookup(pbrer_idx.items, section_num)),
                          TRUE),
                      placeholder>>
        ELSE Append(res, placeholder)

\* source_type == "pbrer"
resolve_pbrer(res, ref, section_num, pbrer_idx) ==
    IF /\ pbrer_idx.given /\ section_num # NoneText
       /\ HasKey(pbrer_idx.items, section_num)
    THEN Append(res,
             ResolvedSource(ref, "pbrer", section_num,
                            clean_source_text(Lookup(pbrer_idx.items, section_num)),
                            TRUE))
    ELSE LET placeholder ==
                 IF section_num # NoneText
                 THEN <<NEEDED, " ", "PBRER", " ", "Section", " ">> \o section_num
                          \o <<" ", "was referenced but could not be resolved", ".", " ",
                               "Provide the", " ", "PBRER", " ",
                               "PDF via --pbrer flag or manually supply the content from",
                               " ", "PBRER", " ", "section", " ">>
                          \o section_num \o <<".", "]">>
                 ELSE <<NEEDED, " ">> \o strip(ref)
                          \o <<" ", "(em dash) provide the", " ", "PBRER", " ",
                               "PDF via --pbrer flag or manually supply the relevant",
                               " ", "PBRER", " ", "content for this section", ".", "]">>
         IN  Append(res, ResolvedSource(ref, "pbrer", section_num, placeholder, FALSE))

\* variant: only key.lower() in ref_lower
LiteratureKeyMatches_key_in_ref(key, ref_lower) == IsSubstring(lowerSeq(key), ref_lower)

\* key.lower() in ref_lower or ref_lower in key.lower()
LiteratureKeyMatches(key, ref_lower) ==
    IsSubstring(lowerSeq(key), ref_lower) \/ IsSubstring(ref_lower, lowerSeq(key))

\* source_type == "external"
resolve_external(res, ref, literature) ==
    IF literature.given /\ literature.items # <<>>
    THEN LET items == literature.items
             ref_lower == lowerSeq(strip(ref))
             hits == {i \in 1..Len(items) : LiteratureKeyMatches(items[i][1], ref_lower)}
         IN  IF hits # {}
             THEN Append(res,
                      ResolvedSource(ref, "external", NoneText,
                          items[CHOOSE i \in hits : \A h \in hits : i <= h][2], TRUE))
             ELSE Append(res,
                      ResolvedSource(ref, "external", NoneText,
                          <<NEEDED, " ", "External source '">> \o strip(ref)
                              \o <<"' was referenced but no matching entry was found in the literature index. Provide this data via --literature flag with a JSON file containing a '">>
                              \o strip(ref) \o <<"' key", ".", "]">>,
                          FALSE))
    ELSE Append(res,
             ResolvedSource(ref, "external", NoneText,
                 <<NEEDED, " ", "External source '">> \o strip(ref)
                     \o <<"' was referenced. Provide literature data via --literature flag with a JSON file containing a '">>
                     \o strip(ref) \o <<"' key", ".", "]">>,
                 FALSE))

\* the final else: branch
resolve_unknown(res, ref, source_type) ==
    Append(res,
        ResolvedSource(ref, source_type, NoneText,
            <<NEEDED, " ", "Source '">> \o strip(ref)
                \o <<"' could not be classified or resolved. Manually provide the content for this reference",
                     ".", "]">>,
            FALSE))

\* the body of `for ref in expanded:`
ResolveRef(res, ref, ib_idx, pbrer_idx, literature) ==
    LET source_type == classify_source(ref)[1]
        section_num == classify_source(ref)[2]
    IN  IF source_type = "ib_table"
        THEN resolve_ib_table(res, ref, section_num, ib_idx)
        ELSE IF source_type = "ib"
        THEN resolve_ib(res, ref, section_num, ib_idx)
        ELSE IF source_type = "pbrer"
        THEN resolve_pbrer(res, ref, section_num, pbrer_idx)
        ELSE IF source_type = "external"
        THEN resolve_external(res, ref, literature)
        ELSE resolve_unknown(res, ref, source_type)

\* expanded.extend(_expand_compound_refs(ref)) for each ref
RECURSIVE expanded_refs(_, _)
expanded_refs(sources, i) ==
    IF i > Len(sources) THEN <<>>
    ELSE _expand_compound_refs(sources[i]) \o expanded_refs(sources, i + 1)

RECURSIVE ResolveLoop(_, _, _, _, _, _)
ResolveLoop(expanded, i, res, ib_idx, pbrer_idx, literature) ==
    IF i > Len(expanded) THEN res
    ELSE ResolveLoop(expanded, i + 1,
             ResolveRef(res, expanded[i], ib_idx, pbrer_idx, literature),
             ib_idx, pbrer_idx, literature)

resolve_sources(sources, ib_idx, pbrer_idx, literature) ==
    IF sources = <<>> THEN <<>>
    ELSE ResolveLoop(expanded_refs(sources, 1), 1, <<>>, ib_idx, pbrer_idx, literature)

(***************************************************************************)
(* vector_store.py: VectorStore instances and the snapshot they share.     *)
(* The FAISS index of an instance is modelled by its number of vectors     *)
(* (index.ntotal): add appends one vector per text, and what the vectors   *)
(* are only decides the ranking, which `ranked` leaves open.  A snapshot   *)
(* is two files in vector_index_dir, <name>.faiss and <name>.meta.json.    *)
(***************************************************************************)
Instances == {1, 2}

\* faiss.write_index / faiss.read_index on <name>.faiss
write_index(ntotal) == [exists |-> TRUE, readable |-> TRUE, ntotal |-> ntotal]
read_index(file) ==
    IF file.exists /\ file.readable THEN Returns(file.ntotal)
    ELSE Raises("RuntimeError")

\* json.dumps(self.metadata, indent=2), without the insignificant white
\* space.  A key, an id and a source type are one symbol each; a title is
\* its symbols.
json_dumps_reversed(meta) ==
    LET Str(t) == <<"\"">> \o t \o <<"\"">>
        Obj(m) == <<"{">> \o Str(<<"section_id">>) \o <<":">> \o Str(<<m.section_id>>)
                  \o <<",">> \o Str(<<"title">>) \o <<":">> \o Str(m.title)
                  \o <<",">> \o Str(<<"source_type">>) \o <<":">> \o Str(<<m.source_type>>)
                  \o <<"}">>
        RECURSIVE Items(_)
        Items(i) == IF i < 1 THEN <<>>
                    ELSE (IF i < Len(meta) THEN <<",">> ELSE <<>>)
                         \o Obj(meta[i]) \o Items(i - 1)
    IN  <<"[">> \o Items(Len(meta)) \o <<"]">>

json_dumps(meta) ==
    LET Str(t) == <<"\"">> \o t \o <<"\"">>
        Obj(m) == <<"{">> \o Str(<<"section_id">>) \o <<":">> \o Str(<<m.section_id>>)
                  \o <<",">> \o Str(<<"title">>) \o <<":">> \o Str(m.title)
                  \o <<",">> \o Str(<<"source_type">>) \o <<":">> \o Str(<<m.source_type>>)
                  \o <<"}">>
        RECURSIVE Items(_)
        Items(i) == IF i > Len(meta) THEN <<>>
                    ELSE (IF i > 1 THEN <<",">> ELSE <<>>)
                         \o Obj(meta[i]) \o Items(i + 1)
    IN  <<"[">> \o Items(1) \o <<"]">>

\* json.loads on the text of <name>.meta.json: a list of objects whose keys
\* and values are strings; anything else raises JSONDecodeError
json_loads(text) ==
    LET n == Len(text)
        bad == Raises("JSONDecodeError")
        At(i) == IF i >= 1 /\ i <= n THEN text[i] ELSE "EOF"
        Close(i) == LET q == {j \in i..n : text[j] = "\""} IN
                    IF q = {} THEN 0 ELSE CHOOSE j \in q : \A x \in q : j <= x
        Value(key, val) == IF key = "title" THEN val ELSE val[1]
        RECURSIVE Members(_, _)
        Members(i, obj) ==
            IF At(i) # "\"" THEN [ok |-> FALSE]
            ELSE LET ke == Close(i + 1) IN
                 IF ke # i + 2 \/ At(ke + 1) # ":" \/ At(ke + 2) # "\""
                 THEN [ok |-> FALSE]
                 ELSE LET ve == Close(ke + 3) IN
                      IF ve = 0 \/ (text[i + 1] # "title" /\ ve # ke + 4)
                      THEN [ok |-> FALSE]
                      ELSE LET key == text[i + 1]
                               val == SubSeq(text, ke + 3, ve - 1)
                               o == DictSet(obj, key, Value(key, val))
                           IN  IF At(ve + 1) = "," THEN Members(ve + 2, o)
                               ELSE IF At(ve + 1) = "}"
                               THEN [ok |-> TRUE, obj |-> o, next |-> ve + 2]
                               ELSE [ok |-> FALSE]
        RECURSIVE Elements(_, _)
        Elements(i, list) ==
            IF At(i) # "{" THEN bad
            ELSE LET m == IF At(i + 1) = "}"
                          THEN [ok |-> TRUE, obj |-> <<>>, next |-> i + 2]
                          ELSE Members(i + 1, <<>>)
                 IN  IF ~m.ok THEN bad
                     ELSE IF At(m.next) = ","
                     THEN Elements(m.next + 1, Append(list, m.obj))
                     ELSE IF At(m.next) = "]" /\ m.next = n
                     THEN Returns(Append(list, m.obj))
                     ELSE bad
    IN  IF At(1) # "[" THEN bad
        ELSE IF At(2) = "]" /\ n = 2 THEN Returns(<<>>)
        ELSE Elements(2, <<>>)

\* Path.write_text on <name>.meta.json
write_text(text) == [exists |-> TRUE, text |-> text]

\* no file of the snapshot exists yet
NoSnapshot ==
    [faiss |-> [exists |-> FALSE, readable |-> FALSE, ntotal |-> 0],
     meta |-> [exists |-> FALSE, text |-> <<>>]]

\* one finished call: who made it, which method, its arguments, its outcome
Finished(self, method, args, outcome) ==
    [self |-> self, call |-> method, args |-> args,
     raised |-> outcome.raised, value |-> outcome.value]

\* neither the text functions nor chunk_text have been called
NoTextCall ==
    /\ extracted = <<>>
    /\ cleanings = <<>>
    /\ citation = <<>>
    /\ refs = <<>>
    /\ kinds = <<>>

NoChunkCall ==
    /\ tokens = <<>>
    /\ chunk_size = 0
    /\ overlap = 0
    /\ start = 0
    /\ chunks = <<>>

\* no VectorStore has been used: __init__ of every instance, an empty directory
NoVectorStore ==
    /\ index = [s \in Instances |-> 0]
    /\ metadata = [s \in Instances |-> <<>>]
    /\ disk = NoSnapshot
    /\ call = [s \in Instances |-> "idle"]
    /\ returned = Finished(0, "none", <<>>, Returns(None))

(***************************************************************************)
(* Inputs of map_sections                                                  *)
(***************************************************************************)
SeqsUpTo(S, n) == UNION {[1..k -> S] : k \in 0..n}

Ids == {"1.1", "9.9"}
DsrTitles == {<<"Intro">>, <<"Intro", " ", "Data">>}

DsrPool == {DSRSection(n, t) : n \in Ids, t \in DsrTitles}
TmplPool ==
    {TemplateSection("1.1", <<"Intro">>), TemplateSection("9.9", <<"intro", "!">>),
     TemplateSection("1.1", <<"Safety">>)}
EntryLists ==
    {<<>>, <<MappingTableEntry("1.1")>>, <<MappingTableEntry("9.9")>>,
     <<MappingTableEntry("1.1"), MappingTableEntry("9.9")>>}

\* vector_store=None, an empty store, and two populated stores
NoStore == [present |-> FALSE, metadata |-> <<>>]
Store(meta) == [present |-> TRUE, metadata |-> meta]
VectorStores ==
    {NoStore,
     Store(<<>>),
     Store(<<Metadata("template", "1.1", <<"Intro">>)>>),
     Store(<<Metadata("ib", "4.4", <<"Data">>),
             Metadata("template", "5.5", <<"Safety">>)>>)}

\* what the reasoning provider may put in "matches"
ApiPool ==
    {ApiMatch("1.1", "9.9", <<"Safety">>, "conceptual_match"),
     ApiMatch("1.1", None, NoneText, "no_match"),
     ApiMatch("", "1.1", <<"Intro">>, "content_match"),
     ApiMatch("7.7", "1.1", <<"Intro">>, "content_match")}
Replies == SeqsUpTo(ApiPool, MaxReply)

\* a mapping dict filled before _pass_mapping_table is called on it
PriorMapping(d) ==
    SectionMapping(d.section_num, d.title, None, NoneText, "exact_title",
                   DefaultConfidence)
PrePopulated(dsr) ==
    {[n \in D |-> PriorMapping(dsr[Max({i \in 1..Len(dsr) : dsr[i].section_num = n})])] :
        D \in SUBSET {dsr[i].section_num : i \in 1..Len(dsr)}}

(***************************************************************************)
(* The state machine of one call                                           *)
(***************************************************************************)
Init ==
    /\ dsr_sections \in SeqsUpTo(DsrPool, MaxDsr)
    /\ template_sections \in SeqsUpTo(TmplPool, MaxTmpl)
    /\ mapping_entries \in EntryLists
    /\ \/ /\ pc = "pass0"                 \* map_sections(...) is entered
          /\ vector_store \in VectorStores
          /\ mappings = <<>>
       \/ /\ pc = "direct"                \* _pass_mapping_table(...) is called
          /\ vector_store = NoStore
          /\ mappings \in PrePopulated(dsr_sections)
    /\ vidx = 1
    /\ output = <<>>
    /\ failed = "none"
    /\ user_data = NoUserData
    /\ result = Result(<<>>)
    /\ required_sources = <<>>
    /\ ib_index = <<>>
    /\ pbrer_index = NoIndex
    /\ literature_results = NoIndex
    /\ results = <<>>
    /\ NoVectorStore
    /\ NoTextCall
    /\ NoChunkCall

\* Pass 0 of map_sections: `if mapping_entries:`
Pass0 ==
    /\ pc = "pass0"
    /\ mappings' = IF mapping_entries # <<>>
                   THEN _pass_mapping_table(dsr_sections, template_sections,
                                            mapping_entries, mappings)
                   ELSE mappings
    /\ pc' = "pass1"
    /\ UNCHANGED <<dsr_sections, template_sections, mapping_entries, vector_store,
                   vidx, output, failed>>
    /\ UNCHANGED <<resolver_vars, store_vars, text_vars, chunk_vars>>
    /\ UNCHANGED api_vars

Pass1 ==
    /\ pc = "pass1"
    /\ mappings' = _pass_exact(dsr_sections, template_sections, mappings)
    /\ pc' = "pass2"
    /\ UNCHANGED <<dsr_sections, template_sections, mapping_entries, vector_store,
                   vidx, output, failed>>
    /\ UNCHANGED <<resolver_vars, store_vars, text_vars, chunk_vars>>
    /\ UNCHANGED api_vars

\* `else:` branch of Pass 2: no store was given
Pass2Fuzzy ==
    /\ pc = "pass2"
    /\ ~vector_store.present
    /\ mappings' = _pass_fuzzy(dsr_sections, template_sections, mappings)
    /\ pc' = "pass3"
    /\ UNCHANGED <<dsr_sections, template_sections, mapping_entries, vector_store,
                   vidx, output, failed>>
    /\ UNCHANGED <<resolver_vars, store_vars, text_vars, chunk_vars>>
    /\ UNCHANGED api_vars

\* _pass_vector, section vidx: `if d.section_num in mappings: continue`
Pass2VectorSkip ==
    /\ pc = "pass2"
    /\ vector_store.present
    /\ vidx <= Len(dsr_sections)
    /\ dsr_sections[vidx].section_num \in DOMAIN mappings
    /\ vidx' = vidx + 1
    /\ UNCHANGED <<dsr_sections, template_sections, mapping_entries, vector_store,
                   mappings, output, failed, pc>>
    /\ UNCHANGED <<resolver_vars, store_vars, text_vars, chunk_vars>>
    /\ UNCHANGED api_vars

\* _pass_vector, section vidx: the search returns
Pass2VectorSearch ==
    /\ pc = "pass2"
    /\ vector_store.present
    /\ vidx <= Len(dsr_sections)
    /\ dsr_sections[vidx].section_num \notin DOMAIN mappings
    /\ LET meta == vector_store.metadata IN
       \E ranked \in Rankings(Len(meta), search_k(Len(meta), VectorK, "template")) :
           mappings' = VectorAssign(dsr_sections[vidx],
                                    search(Len(meta), meta, ranked, VectorK, "template").value,
                                    mappings)
    /\ vidx' = vidx + 1
    /\ UNCHANGED <<dsr_sections, template_sections, mapping_entries, vector_store,
                   output, failed, pc>>
    /\ UNCHANGED <<resolver_vars, store_vars, text_vars, chunk_vars>>
    /\ UNCHANGED api_vars

\* _pass_vector, section vidx: _get_embeddings raises inside search; nothing
\* in _pass_vector or map_sections catches it
Pass2VectorSearchFails ==
    /\ pc = "pass2"
    /\ vector_store.present
    /\ vidx <= Len(dsr_sections)
    /\ dsr_sections[vidx].section_num \notin DOMAIN mappings
    /\ Len(vector_store.metadata) # 0
    /\ failed' = "search"
    /\ pc' = "raised"
    /\ UNCHANGED <<dsr_sections, template_sections, mapping_entries, vector_store,
                   mappings, vidx, output>>
    /\ UNCHANGED <<resolver_vars, store_vars, text_vars, chunk_vars>>
    /\ UNCHANGED api_vars

\* _pass_vector returns
Pass2VectorDone ==
    /\ pc = "pass2"
    /\ vector_store.present
    /\ vidx > Len(dsr_sections)
    /\ pc' = "pass3"
    /\ UNCHANGED <<dsr_sections, template_sections, mapping_entries, vector_store,
                   mappings, vidx, output, failed>>
    /\ UNCHANGED <<resolver_vars, store_vars, text_vars, chunk_vars>>
    /\ UNCHANGED api_vars

\* _pass_api: `if not unmatched: return`
Pass3Skip ==
    /\ pc = "pass3"
    /\ unmatched(dsr_sections, mappings) = <<>>
    /\ pc' = "residual"
    /\ UNCHANGED <<dsr_sections, template_sections, mapping_entries, vector_store,
                   mappings, vidx, output, failed>>
    /\ UNCHANGED <<resolver_vars, store_vars, text_vars, chunk_vars>>
    /\ UNCHANGED api_vars

\* _pass_api: llm.call_json returns {"matches": reply}
Pass3Reply ==
    /\ pc = "pass3"
    /\ unmatched(dsr_sections, mappings) # <<>>
    /\ user_data' = UserData(unmatched(dsr_sections, mappings), template_sections)
    /\ \E reply \in Replies :
           /\ result' = Result(reply)
           /\ mappings' = _pass_api(dsr_sections, mappings, reply)
    /\ pc' = "residual"
    /\ UNCHANGED <<dsr_sections, template_sections, mapping_entries, vector_store,
                   vidx, output, failed>>
    /\ UNCHANGED <<resolver_vars, store_vars, text_vars, chunk_vars>>

\* _pass_api: llm.call_json raises; nothing in _pass_api or map_sections
\* catches it
Pass3CallFails ==
    /\ pc = "pass3"
    /\ unmatched(dsr_sections, mappings) # <<>>
    /\ user_data' = UserData(unmatched(dsr_sections, mappings), template_sections)
    /\ failed' = "llm"
    /\ pc' = "raised"
    /\ UNCHANGED <<dsr_sections, template_sections, mapping_entries, vector_store,
                   mappings, vidx, output, result>>
    /\ UNCHANGED <<resolver_vars, store_vars, text_vars, chunk_vars>>

\* the residual loop and the return statement
Finish ==
    /\ pc = "residual"
    /\ mappings' = residual(dsr_sections, mappings)
    /\ output' = in_section_order(dsr_sections, mappings')
    /\ pc' = "done"
    /\ UNCHANGED <<dsr_sections, template_sections, mapping_entries, vector_store,
                   vidx, failed>>
    /\ UNCHANGED <<resolver_vars, store_vars, text_vars, chunk_vars>>
    /\ UNCHANGED api_vars

\* _pass_mapping_table called on its own, on a dict that may be filled,
\* and then once more on the same inputs
DirectPass0 ==
    /\ pc \in {"direct", "direct_again"}
    /\ mappings' = _pass_mapping_table(dsr_sections, template_sections,
                                       mapping_entries, mappings)
    /\ pc' = IF pc = "direct" THEN "direct_again" ELSE "direct_done"
    /\ UNCHANGED <<dsr_sections, template_sections, mapping_entries, vector_store,
                   vidx, output, failed>>
    /\ UNCHANGED <<resolver_vars, store_vars, text_vars, chunk_vars>>
    /\ UNCHANGED api_vars

Next ==
    \/ Pass0
    \/ Pass1
    \/ Pass2Fuzzy
    \/ Pass2VectorSkip
    \/ Pass2VectorSearch
    \/ Pass2VectorSearchFails
    \/ Pass2VectorDone
    \/ Pass3Skip
    \/ Pass3Reply
    \/ Pass3CallFails
    \/ Finish
    \/ DirectPass0

Spec == Init /\ [][Next]_vars

(***************************************************************************)
(* Inputs of resolve_sources                                               *)
(***************************************************************************)
Citations ==
    {<<"IB", " ", "2", ".", "3">>,
     <<"IB", " ", "Section", " ", "9", ".", "9">>,
     <<"IB", " ", "Sections", " ", "2", ".", "3", ",", " ", "9", ".", "9">>,
     <<"IB">>,
     <<"IB", " ", "Table", " ", "3", "0">>,
     <<" ", "ib", " ", "section", " ", "2", ".", "3", " ", "(", "Dosing", ")">>,
     <<"PBRER", " ", "1", ".", "3">>,
     <<"PBRER", " ", "Section", " ", "5">>,
     <<"PBRER", " ", "x">>,
     <<"PBRER", " ", "1", ".", "3", " ", "&", " ", "2", ".", "3">>,
     <<"UpToDate">>,
     <<"x">>}

\* index texts: plain, with a banner line and a page number, naming a table
PlainText == <<"Dosing", " ", "x">>
BannerText == <<"CONFIDENTIAL", "\n", "Dosing", "\n", "2", "3">>
TableText == <<"Table", " ", "3", "0", " ", "x">>

IbIndexes ==
    {<<>>,
     << <<<<"2", ".", "3">>, BannerText>> >>,
     << <<<<"2", ".", "3">>, PlainText>>, <<<<"1", ".", "3">>, TableText>> >>}
PbrerIndexes ==
    {NoIndex,
     Index(<< <<<<"1", ".", "3">>, BannerText>> >>),
     Index(<< <<<<"5">>, PlainText>>, <<<<"2", ".", "3">>, BannerText>> >>)}
LiteratureIndexes ==
    {NoIndex,
     Index(<<>>),
     Index(<< <<<<"UpToDate">>, BannerText>> >>),
     Index(<< <<<<"medline">>, PlainText>> >>)}

(***************************************************************************)
(* The state machine of one resolve_sources call                           *)
(***************************************************************************)
InitResolve ==
    /\ required_sources \in SeqsUpTo(Citations, MaxRefs)
    /\ ib_index \in IbIndexes
    /\ pbrer_index \in PbrerIndexes
    /\ literature_results \in LiteratureIndexes
    /\ results = <<>>
    /\ pc = "resolve"
    /\ dsr_sections = <<>>
    /\ template_sections = <<>>
    /\ mapping_entries = <<>>
    /\ vector_store = NoStore
    /\ mappings = <<>>
    /\ vidx = 1
    /\ output = <<>>
    /\ failed = "none"
    /\ user_data = NoUserData
    /\ result = Result(<<>>)
    /\ NoVectorStore
    /\ NoTextCall
    /\ NoChunkCall

\* resolve_sources(required_sources, ib_index, pbrer_index, literature_results)
Resolve ==
    /\ pc = "resolve"
    /\ results' = resolve_sources(required_sources, ib_index, pbrer_index,
                                  literature_results)
    /\ pc' = "resolved"
    /\ UNCHANGED <<required_sources, ib_index, pbrer_index, literature_results>>
    /\ UNCHANGED <<mapper_vars, store_vars, text_vars, chunk_vars>>

NextResolve == Resolve

SpecResolve == InitResolve /\ [][NextResolve]_vars

(***************************************************************************)
(* Properties of map_sections                                              *)
(***************************************************************************)
HasEntry(n) ==
    \E j \in 1..Len(mapping_entries) : mapping_entries[j].dsr_section_id = n
TemplatesWithId(n) ==
    {j \in 1..Len(template_sections) : template_sections[j].section_id = n}
TemplatesTitled(title) ==
    {j \in 1..Len(template_sections) :
        _normalize(template_sections[j].title) = _normalize(title)}

\* C1: the step that returns from map_sections yields exactly one record per
\* DSR section, in input order (output[i].dsr_section is the i-th section's
\* number), and every section that no pass had mapped gets a record with
\* match_method "no_match" and template_section None.
C1_OneRecordPerSection ==
    [][(pc = "residual" /\ pc' = "done") =>
          /\ Len(output') = Len(dsr_sections)
          /\ \A i \in 1..Len(dsr_sections) :
                /\ output'[i].dsr_section = dsr_sections[i].section_num
                /\ dsr_sections[i].section_num \notin DOMAIN mappings =>
                       /\ output'[i].match_method = "no_match"
                       /\ output'[i].template_section = None]_vars

\* map_sections has returned two records for two different sections: the
\* first is the synthetic no_match record, the second was mapped by a pass
C1_Witness ==
    /\ pc = "done"
    /\ Len(dsr_sections) = 2
    /\ Len(output) = 2
    /\ dsr_sections[1].section_num # dsr_sections[2].section_num
    /\ output[1].match_method = "no_match"
    /\ output[2].match_method # "no_match"

\* C2: first assignment wins.  No step of the cascade (Pass 0, 1, 2, 3, the
\* residual loop, and Pass 0 called on a pre-populated dict) changes or
\* removes a record that is already in the mapping dict, and the second run
\* of Pass 0 on the same inputs leaves the dict exactly as the first left it.
C2_FirstAssignmentWins ==
    [][/\ \A k \in DOMAIN mappings :
             k \in DOMAIN mappings' /\ mappings'[k] = mappings[k]
       /\ pc = "direct_again" => mappings' = mappings]_vars

\* Pass 0 has run twice on a pre-populated dict: the prior record of a
\* section that has an entry and a template is still there, next to a
\* record Pass 0 added
C2_Witness ==
    /\ pc = "direct_done"
    /\ \E k \in DOMAIN mappings :
          /\ mappings[k].match_method = "exact_title"
          /\ HasEntry(k)
          /\ TemplatesWithId(k) # {}
    /\ \E k \in DOMAIN mappings : mappings[k].match_method = "mapping_table"

\* C3: Pass 0 has absolute priority.  Pass 0 of map_sections assigns exactly
\* the sections that have a mapping-table entry and a template section with
\* that id (nothing when the id is no template id), and the record
\* map_sections returns for such a section has match_method "mapping_table",
\* confidence 1.0 and the template section with that id.
C3_MappingTablePriority ==
    [][/\ pc = "pass0" =>
             \A i \in 1..Len(dsr_sections) :
                 LET n == dsr_sections[i].section_num IN
                 n \in DOMAIN mappings' <=> (HasEntry(n) /\ TemplatesWithId(n) # {})
       /\ (pc = "residual" /\ pc' = "done") =>
             \A i \in 1..Len(dsr_sections) :
                 LET n == dsr_sections[i].section_num IN
                 (HasEntry(n) /\ TemplatesWithId(n) # {}) =>
                     /\ output'[i].match_method = "mapping_table"
                     /\ output'[i].confidence = FullConfidence
                     /\ output'[i].template_section = n
                     /\ \E j \in TemplatesWithId(n) :
                            output'[i].template_title = template_sections[j].title]_vars

\* the first section is returned with the mapping table's template although
\* another template carries its title; the second section has an entry whose
\* id is no template id and was left to the later passes
C3_Witness ==
    /\ pc = "done"
    /\ Len(dsr_sections) = 2
    /\ HasEntry(dsr_sections[1].section_num)
    /\ output[1].match_method = "mapping_table"
    /\ \E j \in TemplatesTitled(dsr_sections[1].title) :
          template_sections[j].title # output[1].template_title
    /\ HasEntry(dsr_sections[2].section_num)
    /\ TemplatesWithId(dsr_sections[2].section_num) = {}
    /\ output[2].match_method # "mapping_table"

\* C4: a failed reasoning-provider call in Pass 3 does not make map_sections
\* raise: the call still goes on to the residual loop and returns one record
\* per DSR section.
C4_Pass3FailureTolerated ==
    failed = "llm" =>
        /\ pc \in {"residual", "done"}
        /\ pc = "done" => Len(output) = Len(dsr_sections)

\* C5: a failed similarity search in Pass 2 does not abort map_sections: the
\* call goes on (with the keyword-overlap strategy) to Pass 3 and the
\* residual loop.
C5_SearchFailureDegrades ==
    failed = "search" => pc \in {"pass2", "pass3", "residual", "done"}

\* C10: a record made by Pass 1 of map_sections names the first template
\* section, in template-list order, whose normalized title equals the DSR
\* section's normalized title.
C10_FirstTemplateWins ==
    pc \in {"pass2", "pass3", "residual", "done", "raised"} =>
        \A k \in DOMAIN mappings :
            mappings[k].match_method = "exact_title" =>
                LET first == CHOOSE j \in TemplatesTitled(mappings[k].dsr_title) :
                                 \A h \in TemplatesTitled(mappings[k].dsr_title) : j <= h
                IN  /\ mappings[k].template_section = template_sections[first].section_id
                    /\ mappings[k].template_title = template_sections[first].title

(***************************************************************************)
(* Properties of resolve_sources                                           *)
(***************************************************************************)
\* the strings the resolver classifies: the expansion of every citation
Expanded == expanded_refs(required_sources, 1)
\* a classification c = <<kind, locator>> whose locator is a key of its index
IbKeyed(c) == c[1] = "ib" /\ c[2] # NoneText /\ HasKey(ib_index, c[2])
PbrerKeyed(c) ==
    /\ c[1] = "pbrer" /\ c[2] # NoneText
    /\ pbrer_index.given /\ HasKey(pbrer_index.items, c[2])
IsPlaceholder(content) ==
    Len(content) >= 2 /\ content[1] = NEEDED /\ content[Len(content)] = "]"
IndexTexts ==
    {ib_index[i][2] : i \in 1..Len(ib_index)}
        \cup {pbrer_index.items[i][2] : i \in 1..Len(pbrer_index.items)}
        \cup {literature_results.items[i][2] : i \in 1..Len(literature_results.items)}

\* C6: resolve_sources returns one record per expanded citation, in
\* expansion order: the records' original_ref are, one after the other, the
\* expansions of the first citation, then of the second, and so on; an empty
\* citation list yields an empty list.
C6_OneRecordPerExpandedCitation ==
    pc = "resolved" =>
        LET ex == Expanded IN
        /\ Len(results) = Len(ex)
        /\ \A i \in 1..Len(ex) : results[i].original_ref = ex[i]
        /\ required_sources = <<>> => results = <<>>

\* a compound citation followed by a second citation: two records for the
\* first, then the record of the second, resolved from the secondary index
C6_Witness ==
    /\ pc = "resolved"
    /\ Len(required_sources) = 2
    /\ Len(_expand_compound_refs(required_sources[1])) = 2
    /\ Len(results) = 3
    /\ results[3].original_ref = required_sources[2]
    /\ results[3].source_type = "pbrer"
    /\ results[3].found

\* C7: for every citation the resolver classifies as ib or pbrer with a
\* locator that is a key of the matching index, the record has found = TRUE
\* and content equal to clean_source_text of the index value, whatever the
\* other citations and indices are.  (The resolver classifies the expanded
\* citations; a citation that is not compound is its own expansion.)
C7_KeyedCitationResolved ==
    pc = "resolved" =>
        LET ex == Expanded IN
        \A i \in 1..Len(ex) :
            LET c == classify_source(ex[i]) IN
            /\ IbKeyed(c) =>
                   /\ i <= Len(results)
                   /\ results[i].found
                   /\ results[i].content = clean_source_text(Lookup(ib_index, c[2]))
            /\ PbrerKeyed(c) =>
                   /\ i <= Len(results)
                   /\ results[i].found
                   /\ results[i].content =
                          clean_source_text(Lookup(pbrer_index.items, c[2]))

\* an ib citation and a pbrer citation are both resolved, and the ib record
\* carries a text the cleaner has changed
C7_Witness ==
    /\ pc = "resolved"
    /\ Len(results) = 2
    /\ IbKeyed(classify_source(required_sources[1]))
    /\ Lookup(ib_index, classify_source(required_sources[1])[2]) # results[1].content
    /\ results[1].found
    /\ PbrerKeyed(classify_source(required_sources[2]))
    /\ results[2].found

\* C8: every ib or pbrer citation with a locator that its index does not
\* hold (for pbrer also when no secondary index is given) yields a record
\* with found = FALSE whose content is a bracketed
\* "[ADDITIONAL DATA NEEDED: ...]" placeholder naming the document kind and
\* the locator.
C8_UnresolvedBecomesPlaceholder ==
    pc = "resolved" =>
        LET ex == Expanded IN
        \A i \in 1..Len(ex) :
            LET c == classify_source(ex[i]) IN
            /\ (c[1] = "ib" /\ c[2] # NoneText /\ ~IbKeyed(c)) =>
                   /\ i <= Len(results)
                   /\ ~results[i].found
                   /\ IsPlaceholder(results[i].content)
                   /\ IsSubstring(<<"IB">>, results[i].content)
                   /\ IsSubstring(c[2], results[i].content)
            /\ (c[1] = "pbrer" /\ c[2] # NoneText /\ ~PbrerKeyed(c)) =>
                   /\ i <= Len(results)
                   /\ ~results[i].found
                   /\ IsPlaceholder(results[i].content)
                   /\ IsSubstring(<<"PBRER">>, results[i].content)
                   /\ IsSubstring(c[2], results[i].content)

\* "IB Section 9.9" against an index without 9.9, and a pbrer citation with
\* no secondary index: two placeholders
C8_Witness ==
    /\ pc = "resolved"
    /\ Len(results) = 2
    /\ classify_source(required_sources[1]) = <<"ib", <<"9", ".", "9">>>>
    /\ ib_index # <<>>
    /\ ~results[1].found
    /\ classify_source(required_sources[2])[1] = "pbrer"
    /\ classify_source(required_sources[2])[2] # NoneText
    /\ ~pbrer_index.given
    /\ ~results[2].found

\* C9: every record with found = TRUE carries clean_source_text of a value
\* of the primary, secondary or literature index, and every record with
\* found = FALSE carries a placeholder.
C9_CleanerOnEveryPassage ==
    pc = "resolved" =>
        \A i \in 1..Len(results) :
            /\ results[i].found =>
                   \E text \in IndexTexts : results[i].content = clean_source_text(text)
            /\ ~results[i].found => IsPlaceholder(results[i].content)

(***************************************************************************)
(* Title matching: map_sections called with no mapping table and no store, *)
(* followed up to the end of Pass 2, on titles that differ in case,        *)
(* punctuation, whitespace and shared words.                               *)
(***************************************************************************)
TitleDsrPool ==
    {DSRSection("1.1", <<"Intro", " ", "Data">>),
     DSRSection("2.2", <<"Intro", " ", " ", "Data">>),
     DSRSection("3.3", <<"Safety", " ", "Data", " ", "signal">>),
     DSRSection("4.4", <<"x">>)}
TitleTmplPool ==
    {TemplateSection("5.1", <<"intro", ",", " ", "data", "!">>),
     TemplateSection("5.2", <<"Data", " ", "Safety">>),
     TemplateSection("5.3", <<"signal", " ", "assessment", " ", "Intro">>),
     TemplateSection("5.4", <<"signal", " ", "assessment", " ", "dosing">>),
     TemplateSection("5.5", <<"!">>)}

InitTitles ==
    /\ dsr_sections \in SeqsUpTo(TitleDsrPool, MaxDsr)
    /\ template_sections \in SeqsUpTo(TitleTmplPool, MaxTmpl)
    /\ mapping_entries = <<>>
    /\ vector_store = NoStore
    /\ mappings = <<>>
    /\ vidx = 1
    /\ output = <<>>
    /\ failed = "none"
    /\ user_data = NoUserData
    /\ result = Result(<<>>)
    /\ required_sources = <<>>
    /\ ib_index = <<>>
    /\ pbrer_index = NoIndex
    /\ literature_results = NoIndex
    /\ results = <<>>
    /\ NoVectorStore
    /\ NoTextCall
    /\ NoChunkCall
    /\ pc = "titles_pass1"

\* Pass 1 of map_sections
TitlesPass1 ==
    /\ pc = "titles_pass1"
    /\ mappings' = _pass_exact(dsr_sections, template_sections, mappings)
    /\ pc' = "titles_pass2"
    /\ UNCHANGED <<dsr_sections, template_sections, mapping_entries, vector_store,
                   vidx, output, failed>>
    /\ UNCHANGED <<resolver_vars, store_vars, text_vars, chunk_vars>>
    /\ UNCHANGED api_vars

\* Pass 2 of map_sections, `else:` branch (vector_store is None)
TitlesPass2 ==
    /\ pc = "titles_pass2"
    /\ mappings' = _pass_fuzzy(dsr_sections, template_sections, mappings)
    /\ pc' = "titles_pass3"
    /\ UNCHANGED <<dsr_sections, template_sections, mapping_entries, vector_store,
                   vidx, output, failed>>
    /\ UNCHANGED <<resolver_vars, store_vars, text_vars, chunk_vars>>
    /\ UNCHANGED api_vars

NextTitles == TitlesPass1 \/ TitlesPass2

SpecTitles == InitTitles /\ [][NextTitles]_vars

\* the normal form the title rule names: lowercase, drop what is neither
\* alphanumeric nor a space, collapse whitespace
RECURSIVE JoinWords(_)
JoinWords(ws) ==
    IF ws = <<>> THEN <<>>
    ELSE IF Len(ws) = 1 THEN ws[1]
    ELSE ws[1] \o <<" ">> \o JoinWords(Tail(ws))
CollapsedTitle(s) == JoinWords(split(SelectSeq(lowerSeq(s), IsNormChar)))

\* C11: after Pass 1 a DSR section carries an "exact_title" record exactly
\* when some template title equals its title after lowercasing, removing
\* what is neither alphanumeric nor a space, and collapsing whitespace.
C11_ExactTitleOnCollapsedEquality ==
    pc = "titles_pass2" =>
        \A i \in 1..Len(dsr_sections) :
            LET n == dsr_sections[i].section_num IN
            (n \in DOMAIN mappings /\ mappings[n].match_method = "exact_title")
                <=> \E j \in 1..Len(template_sections) :
                        CollapsedTitle(template_sections[j].title)
                            = CollapsedTitle(dsr_sections[i].title)

\* C12: exactly one Pass-2 strategy runs.  With a store every record Pass 2
\* adds is a "vector_similarity" record and the sections the search did not
\* map are still unmapped when Pass 3 starts; without a store every record
\* Pass 2 adds is a keyword-overlap ("title_match") record.
C12_OnePass2Strategy ==
    [][pc = "pass2" =>
          /\ \A k \in DOMAIN mappings' \ DOMAIN mappings :
                 mappings'[k].match_method =
                     IF vector_store.present THEN "vector_similarity" ELSE "title_match"
          /\ (vector_store.present /\ pc' = "pass3") => mappings' = mappings]_vars

\* a store was given, Pass 2 is over, and a section is still unmapped
\* although its title shares enough words with a template title for the
\* keyword-overlap pass to map it
C12_Witness ==
    /\ pc = "pass3"
    /\ vector_store.present
    /\ \E i \in 1..Len(dsr_sections) :
          /\ dsr_sections[i].section_num \notin DOMAIN mappings
          /\ \E j \in 1..Len(template_sections) :
                LET sc == _keyword_overlap(dsr_sections[i].title,
                                           template_sections[j].title)
                IN  2 * sc[1] >= sc[2]

\* the score the keyword-overlap rule names, as <<numerator, denominator>>:
\* |words(a) \cap words(b)| / min(|words(a)|, |words(b)|), 0 on an empty set
OverlapScore(a, b) ==
    LET wa == {w \in Range(split(_normalize(a))) : TRUE}
        wb == {w \in Range(split(_normalize(b))) : TRUE}
        na == Cardinality(wa)
        nb == Cardinality(wb)
    IN  IF na = 0 \/ nb = 0 THEN <<0, 1>>
        ELSE <<Cardinality({w \in wa : w \in wb}), IF na <= nb THEN na ELSE nb>>
\* the template positions whose score against title is the best one
BestScoring(title) ==
    {b \in 1..Len(template_sections) :
        \A j \in 1..Len(template_sections) :
            LET sb == OverlapScore(title, template_sections[b].title)
                sj == OverlapScore(title, template_sections[j].title)
            IN  sj[1] * sb[2] <= sb[1] * sj[2]}
ReachesHalf(title) ==
    \E b \in BestScoring(title) :
        LET sb == OverlapScore(title, template_sections[b].title) IN 2 * sb[1] >= sb[2]

\* C13: without a store, Pass 2 maps a section that is still unmapped to a
\* best-scoring template with method "title_match" if and only if the best
\* keyword-overlap score is at least 0.5; otherwise the section is still
\* unmapped after Pass 2.
C13_KeywordOverlapThreshold ==
    [][pc = "titles_pass2" /\ pc' = "titles_pass3" =>
          \A i \in 1..Len(dsr_sections) :
              LET n == dsr_sections[i].section_num
                  title == dsr_sections[i].title
              IN  n \notin DOMAIN mappings =>
                      /\ n \in DOMAIN mappings' <=> ReachesHalf(title)
                      /\ n \in DOMAIN mappings' =>
                             /\ mappings'[n].match_method = "title_match"
                             /\ \E b \in BestScoring(title) :
                                    /\ mappings'[n].template_section
                                           = template_sections[b].section_id
                                    /\ mappings'[n].template_title
                                           = template_sections[b].title]_vars

\* after Pass 2 the first section is mapped on a best score of exactly 0.5
\* and the second is unmapped on a best score of 1/3
C13_Witness ==
    /\ pc = "titles_pass3"
    /\ Len(dsr_sections) = 2
    /\ dsr_sections[1].section_num \in DOMAIN mappings
    /\ mappings[dsr_sections[1].section_num].match_method = "title_match"
    /\ \E b \in BestScoring(dsr_sections[1].title) :
          OverlapScore(dsr_sections[1].title, template_sections[b].title) = <<1, 2>>
    /\ dsr_sections[2].section_num \notin DOMAIN mappings
    /\ \E b \in BestScoring(dsr_sections[2].title) :
          OverlapScore(dsr_sections[2].title, template_sections[b].title) = <<1, 3>>

\* the reply entries that name section k, by position
EntriesFor(matches, k) == {j \in 1..Len(matches) : matches[j].dsr_section = k}

\* C14: Pass 3 makes no provider call when every section is mapped;
\* otherwise it sends exactly the sections still unmapped, in order, and
\* records a returned match, as returned, exactly when its dsr_section is
\* non-empty and not yet in the mapping dict: the first entry naming a
\* section is kept, entries for mapped sections are ignored.
C14_Pass3RecordsUnvalidated ==
    [][pc = "pass3" =>
          LET unm == SelectSeq(dsr_sections,
                         LAMBDA d : d.section_num \notin DOMAIN mappings)
          IN  IF unm = <<>>
              THEN ~user_data'.sent /\ mappings' = mappings
              ELSE /\ user_data'.sent
                   /\ user_data'.unmatched_dsr_sections = unm
                   /\ pc' = "residual" =>
                        LET matches == result'.matches IN
                        /\ DOMAIN mappings' =
                               DOMAIN mappings \cup
                                   {matches[j].dsr_section : j \in
                                       {h \in 1..Len(matches) :
                                           matches[h].dsr_section # ""}}
                        /\ \A k \in DOMAIN mappings' \ DOMAIN mappings :
                               LET first == CHOOSE j \in EntriesFor(matches, k) :
                                                \A h \in EntriesFor(matches, k) : j <= h
                               IN  /\ mappings'[k].dsr_section = k
                                   /\ mappings'[k].template_section
                                          = matches[first].template_section
                                   /\ mappings'[k].template_title
                                          = matches[first].template_title
                                   /\ mappings'[k].match_method
                                          = matches[first].match_method
                        /\ \A k \in DOMAIN mappings : mappings'[k] = mappings[k]]_vars

\* the reply named a section that was sent twice, with different matches:
\* the first entry is the one recorded
C14_Witness ==
    /\ pc = "residual"
    /\ user_data.sent
    /\ Len(result.matches) = 2
    /\ result.matches[1].dsr_section = result.matches[2].dsr_section
    /\ result.matches[1].match_method # result.matches[2].match_method
    /\ \E i \in 1..Len(user_data.unmatched_dsr_sections) :
          user_data.unmatched_dsr_sections[i].section_num
              = result.matches[1].dsr_section
    /\ mappings[result.matches[1].dsr_section].match_method
           = result.matches[1].match_method

(***************************************************************************)
(* The state machine of VectorStore: calls on the instances of a process   *)
(* and the snapshot files they share.  The embedding provider is the       *)
(* offline substitute of _get_embeddings, which cannot fail.               *)
(***************************************************************************)
MaxAdd == 2
MaxK == 2
MaxVectors == 4
MaxSaved == 2

SourceTypes == {"ib", "template"}
StoreTexts == {<<"Intro">>}
StoreDicts == {[section_id |-> "5.1", title |-> <<"Intro">>]}

\* VectorStore.__init__
NewVectorStore(s) ==
    /\ call[s] = "idle"
    /\ index' = [index EXCEPT ![s] = 0]
    /\ metadata' = [metadata EXCEPT ![s] = <<>>]
    /\ returned' = Finished(s, "__init__", <<>>, Returns(None))
    /\ UNCHANGED <<disk, call, mapper_vars, resolver_vars,
                 text_vars, chunk_vars, pc>>

\* VectorStore.add_documents(texts, metadata, source_type)
AddDocuments(s, texts, meta, source_type) ==
    /\ call[s] = "idle"
    /\ IF texts = <<>>
       THEN /\ returned' = Finished(s, "add_documents", <<texts, meta, source_type>>,
                                    Returns(None))
            /\ UNCHANGED <<index, metadata>>
       ELSE IF Len(texts) # Len(meta)
       THEN /\ returned' = Finished(s, "add_documents", <<texts, meta, source_type>>,
                                    Raises("ValueError"))
            /\ UNCHANGED <<index, metadata>>
       ELSE LET enriched == [i \in 1..Len(meta) |->
                                Metadata(source_type, meta[i].section_id, meta[i].title)]
            IN  /\ index' = [index EXCEPT ![s] = @ + Len(texts)]
                /\ metadata' = [metadata EXCEPT ![s] = @ \o enriched]
                /\ returned' = Finished(s, "add_documents",
                                        <<texts, meta, source_type>>, Returns(None))
    /\ UNCHANGED <<disk, call, mapper_vars, resolver_vars,
                 text_vars, chunk_vars, pc>>

\* VectorStore.search(query, k, filter_source)
Search(s, k, filter_source) ==
    /\ call[s] = "idle"
    /\ \E ranked \in Rankings(index[s], search_k(index[s], k, filter_source)) :
           returned' = Finished(s, "search", <<k, filter_source>>,
                                search(index[s], metadata[s], ranked, k, filter_source))
    /\ UNCHANGED <<index, metadata, disk, call, mapper_vars, resolver_vars,
                 text_vars, chunk_vars, pc>>

\* VectorStore.save, first write: faiss.write_index
SaveIndex(s) ==
    /\ call[s] = "idle"
    /\ disk' = [disk EXCEPT !.faiss = write_index(index[s])]
    /\ call' = [call EXCEPT ![s] = "save_meta"]
    /\ UNCHANGED <<index, metadata, returned, mapper_vars, resolver_vars,
                 text_vars, chunk_vars, pc>>

\* VectorStore.save, second write: meta_path.write_text(json.dumps(...))
SaveMeta(s) ==
    /\ call[s] = "save_meta"
    /\ disk' = [disk EXCEPT !.meta = write_text(json_dumps(metadata[s]))]
    /\ call' = [call EXCEPT ![s] = "idle"]
    /\ returned' = Finished(s, "save", <<>>, Returns(None))
    /\ UNCHANGED <<index, metadata, mapper_vars, resolver_vars,
                 text_vars, chunk_vars, pc>>

\* VectorStore.load up to `self.index = faiss.read_index(...)`: the two
\* exists() tests, then the read of <name>.faiss inside the try
LoadIndex(s) ==
    /\ call[s] = "idle"
    /\ IF ~disk.faiss.exists \/ ~disk.meta.exists
       THEN /\ returned' = Finished(s, "load", <<>>, Returns(FALSE))
            /\ UNCHANGED <<index, call>>
       ELSE LET read == read_index(disk.faiss) IN
            IF read.raised # None
            THEN /\ returned' = Finished(s, "load", <<>>, Returns(FALSE))
                 /\ UNCHANGED <<index, call>>
            ELSE /\ index' = [index EXCEPT ![s] = read.value]
                 /\ call' = [call EXCEPT ![s] = "load_meta"]
                 /\ UNCHANGED returned
    /\ UNCHANGED <<metadata, disk, mapper_vars, resolver_vars,
                 text_vars, chunk_vars, pc>>

\* VectorStore.load from `self.metadata = json.loads(meta_path.read_text())`
\* to its return, `except Exception` included
LoadMeta(s) ==
    /\ call[s] = "load_meta"
    /\ LET read == json_loads(disk.meta.text) IN
       IF read.raised # None
       THEN /\ returned' = Finished(s, "load", <<>>, Returns(FALSE))
            /\ UNCHANGED metadata
       ELSE /\ metadata' = [metadata EXCEPT ![s] = read.value]
            /\ returned' = Finished(s, "load", <<>>, Returns(TRUE))
    /\ call' = [call EXCEPT ![s] = "idle"]
    /\ UNCHANGED <<index, disk, mapper_vars, resolver_vars,
                 text_vars, chunk_vars, pc>>

\* map_sections is not running
NoMapping ==
    /\ dsr_sections = <<>>
    /\ template_sections = <<>>
    /\ mapping_entries = <<>>
    /\ vector_store = NoStore
    /\ mappings = <<>>
    /\ vidx = 1
    /\ output = <<>>
    /\ failed = "none"
    /\ user_data = NoUserData
    /\ result = Result(<<>>)

\* resolve_sources is not running
NoResolution ==
    /\ required_sources = <<>>
    /\ ib_index = <<>>
    /\ pbrer_index = NoIndex
    /\ literature_results = NoIndex
    /\ results = <<>>

\* everything the store specifications leave alone
StoreOnly ==
    /\ NoMapping
    /\ NoResolution
    /\ NoTextCall
    /\ NoChunkCall
    /\ pc = "store"

(***************************************************************************)
(* add_documents and search on one instance.  search changes nothing in    *)
(* the store, so a run is any sequence of adds followed by one search.     *)
(***************************************************************************)
InitSearch ==
    /\ StoreOnly
    /\ NoVectorStore

NextSearch ==
    \/ \E texts \in SeqsUpTo(StoreTexts, MaxAdd), meta \in SeqsUpTo(StoreDicts, MaxAdd),
          source_type \in SourceTypes :
           /\ returned.call # "search"
           /\ index[1] + Len(texts) <= MaxVectors
           /\ AddDocuments(1, texts, meta, source_type)
    \/ \E k \in 1..MaxK, filter_source \in SourceTypes \cup {None} :
           /\ returned.call # "search"
           /\ Search(1, k, filter_source)

SpecSearch == InitSearch /\ [][NextSearch]_vars

(***************************************************************************)
(* One process: instance 1 fills and saves the store, instance 2 is the    *)
(* instance a later run constructs to load the snapshot.  Calls do not     *)
(* overlap.  The directory may hold what an earlier run left behind.       *)
(***************************************************************************)
LeftBehind ==
    {NoSnapshot,
     [NoSnapshot EXCEPT !.faiss = write_index(1)],
     [faiss |-> [exists |-> TRUE, readable |-> FALSE, ntotal |-> 0],
      meta |-> write_text(json_dumps(<<Metadata("ib", "5.1", <<"Intro">>)>>))],
     [faiss |-> write_index(1), meta |-> write_text(<<"[", "{">>)],
     [faiss |-> write_index(1),
      meta |-> write_text(json_dumps(<<Metadata("ib", "5.1", <<"Intro">>)>>))]}

InitStore ==
    /\ StoreOnly
    /\ index = [s \in Instances |-> 0]
    /\ metadata = [s \in Instances |-> <<>>]
    /\ disk \in LeftBehind
    /\ call = [s \in Instances |-> "idle"]
    /\ returned = Finished(0, "none", <<>>, Returns(None))

\* no other instance is inside a call
Alone(s) == \A t \in Instances \ {s} : call[t] = "idle"

NextStore ==
    \/ \E texts \in SeqsUpTo(StoreTexts, MaxAdd), meta \in SeqsUpTo(StoreDicts, MaxAdd),
          source_type \in SourceTypes :
           /\ Alone(1)
           /\ index[1] + Len(texts) <= MaxSaved
           /\ Len(metadata[1]) + Len(meta) <= MaxSaved
           /\ AddDocuments(1, texts, meta, source_type)
    \/ Alone(1) /\ SaveIndex(1)
    \/ Alone(1) /\ SaveMeta(1)
    \/ Alone(2) /\ NewVectorStore(2)
    \/ \E s \in Instances : Alone(s) /\ LoadIndex(s)
    \/ \E s \in Instances : Alone(s) /\ LoadMeta(s)
    \/ \E s \in Instances, k \in 1..MaxK, filter_source \in SourceTypes \cup {None} :
           Alone(s) /\ Search(s, k, filter_source)

SpecStore == InitStore /\ [][NextStore]_vars

(***************************************************************************)
(* Two runs, each with its own instance, saving and loading the same       *)
(* snapshot name with no locking: every file access is one step.           *)
(***************************************************************************)
Filled ==
    {<<>>,
     <<Metadata("ib", "5.1", <<"Intro">>)>>,
     <<Metadata("ib", "5.1", <<"Intro">>), Metadata("template", "5.1", <<"Intro">>)>>}

InitSnapshot ==
    /\ StoreOnly
    /\ metadata \in [Instances -> Filled]
    /\ index = [s \in Instances |-> Len(metadata[s])]
    /\ disk = NoSnapshot
    /\ call = [s \in Instances |-> "idle"]
    /\ returned = Finished(0, "none", <<>>, Returns(None))

NextSnapshot ==
    \/ \E s \in Instances : SaveIndex(s)
    \/ \E s \in Instances : SaveMeta(s)
    \/ \E s \in Instances : LoadIndex(s)
    \/ \E s \in Instances : LoadMeta(s)

SpecSnapshot == InitSnapshot /\ [][NextSnapshot]_vars

(***************************************************************************)
(* Properties of VectorStore                                               *)
(***************************************************************************)
\* C15: every add_documents call whose texts and metadata lists differ in
\* length raises ValueError and leaves the vector set and the metadata list
\* as they were.
C15_LengthMismatchRaises ==
    [][(/\ returned'.call = "add_documents"
        /\ Len(returned'.args[1]) # Len(returned'.args[2]))
       => (/\ returned'.raised = "ValueError"
           /\ UNCHANGED <<index, metadata>>)]_vars

\* C16: when load has returned False the instance is still usable: its
\* number of vectors equals the length of its metadata list.
C16_FailedLoadLeavesUsable ==
    \A s \in Instances :
        (/\ returned.call = "load"
         /\ returned.self = s
         /\ returned.value = FALSE
         /\ call[s] = "idle")
        => index[s] = Len(metadata[s])

\* C17: whatever the interleaving of the save and load steps of the two
\* instances, an instance whose load has returned True holds a vector set
\* and a metadata list of one and the same save: their counts are equal.
C17_LoadedSnapshotIsOneUnit ==
    \A s \in Instances :
        (/\ returned.call = "load"
         /\ returned.self = s
         /\ returned.value = TRUE
         /\ call[s] = "idle")
        => index[s] = Len(metadata[s])

\* C18: a search with a filter returns min(k, m) results, m being the
\* number of stored entries of the requested source type.
C18_FilterDoesNotStarve ==
    (/\ returned.call = "search"
     /\ returned.args[2] # None
     /\ returned.raised = None)
    => LET s == returned.self
           k == returned.args[1]
           m == Cardinality({i \in 1..Len(metadata[s]) :
                                metadata[s][i].source_type = returned.args[2]})
       IN  Len(returned.value) = Min(k, m)

\* C19: instance 1 holds what successful adds leave (as many vectors as
\* metadata entries) and has saved it.  When instance 2, fresh, then loads
\* the snapshot, the load does not give up at the index file, returns True
\* and leaves instance 2 with the number of vectors and the metadata list,
\* in order, of instance 1; a search that follows on instance 2 returns
\* normally, with scores that never increase.
C19_SaveLoadRoundTrip ==
    [][LET added == index[1] = Len(metadata[1])
           saved == returned.call = "save" /\ returned.self = 1
           loaded == /\ returned.call = "load" /\ returned.self = 2
                     /\ returned.value = TRUE
                     /\ index[2] = index[1] /\ metadata[2] = metadata[1]
       IN  /\ (/\ added /\ saved
               /\ index[2] = 0 /\ metadata[2] = <<>> /\ call[2] = "idle"
               /\ \/ call'[2] # "idle"
                  \/ returned'.call = "load" /\ returned'.self = 2)
              => (call'[2] = "load_meta" /\ index'[2] = index[1])
           /\ (/\ added /\ saved
               /\ call[2] = "load_meta"
               /\ returned'.call = "load")
              => (/\ returned'.value = TRUE
                  /\ index'[2] = index[1]
                  /\ metadata'[2] = metadata[1])
           /\ (/\ added /\ loaded
               /\ call[2] = "idle"
               /\ returned'.call = "search" /\ returned'.self = 2)
              => (/\ returned'.raised = None
                  /\ \A a, b \in 1..Len(returned'.value) :
                         a < b => returned'.value[a].score >= returned'.value[b].score)]_vars

\* instance 2 has loaded a snapshot of two entries of different source types
\* that instance 1 saved, and a search on it has returned both
C19_Witness ==
    /\ returned.call = "search" /\ returned.self = 2
    /\ returned.raised = None
    /\ Len(returned.value) = 2
    /\ index[2] = 2
    /\ metadata[2] = metadata[1]
    /\ metadata[2][1].source_type # metadata[2][2].source_type
    /\ disk.meta.text = json_dumps(metadata[1])

\* C20: a search returns at most k results, each of the requested source
\* type when a filter is given, returns the empty list on an empty index,
\* and leaves the vector set and the metadata list as they were.
C20_SearchBoundedFilteredPure ==
    [][(returned.call # "search" /\ returned'.call = "search")
       => LET s == returned'.self
              k == returned'.args[1]
              filter_source == returned'.args[2]
              found == returned'.value
          IN  /\ returned'.raised = None
              /\ Len(found) <= k
              /\ filter_source # None
                 => \A i \in 1..Len(found) :
                        found[i].metadata.source_type = filter_source
              /\ index[s] = 0 => found = <<>>
              /\ UNCHANGED <<index, metadata>>]_vars

\* a filtered search with k = 1 on a store holding two entries of the
\* requested type and one of another type has returned one result
C20_Witness ==
    /\ returned.call = "search"
    /\ returned.args = <<1, "ib">>
    /\ Len(returned.value) = 1
    /\ Cardinality({i \in 1..Len(metadata[1]) : metadata[1][i].source_type = "ib"}) = 2
    /\ Cardinality({i \in 1..Len(metadata[1]) : metadata[1][i].source_type = "template"}) = 1

(***************************************************************************)
(* clean_source_text called on extracted text, then again on what it       *)
(* returned.  The text is up to MaxLines lines taken from CleanLines.      *)
(***************************************************************************)
MaxLines == 3
MaxCleanings == 2

CleanLines ==
    {<<>>,
     <<"Dosing">>,
     <<"2">>,
     <<"CONFIDENTIAL">>,
     <<"Investigator's Brochure:", " ", "x">>,
     <<"Periodic", " ", "Benefit-Risk", " ", "x">>,
     <<"Version", " ", "Number", " ", "1", ",">>,
     <<"x", " ", "2", "0", "2", "0">>}

RECURSIVE JoinLines(_)
JoinLines(ls) ==
    IF ls = <<>> THEN <<>>
    ELSE IF Len(ls) = 1 THEN ls[1]
    ELSE ls[1] \o <<"\n">> \o JoinLines(Tail(ls))

InitClean ==
    /\ NoMapping
    /\ NoResolution
    /\ NoVectorStore
    /\ NoChunkCall
    /\ \E ls \in SeqsUpTo(CleanLines, MaxLines) : extracted = JoinLines(ls)
    /\ cleanings = <<>>
    /\ citation = <<>>
    /\ refs = <<>>
    /\ kinds = <<>>
    /\ pc = "clean"

\* one call of clean_source_text: on the extracted text, then on its own result
Clean ==
    /\ pc = "clean"
    /\ Len(cleanings) < MaxCleanings
    /\ cleanings' = Append(cleanings,
                           clean_source_text(IF cleanings = <<>> THEN extracted
                                             ELSE cleanings[Len(cleanings)]))
    /\ UNCHANGED <<extracted, citation, refs, kinds>>
    /\ UNCHANGED <<mapper_vars, resolver_vars, store_vars, chunk_vars, pc>>

NextClean == Clean

SpecClean == InitClean /\ [][NextClean]_vars

\* C21: clean_source_text is idempotent: called on its own result it
\* returns that result.
C21_CleanIdempotent ==
    Len(cleanings) >= 2 => cleanings[2] = cleanings[1]

(***************************************************************************)
(* _expand_compound_refs and classify_source on their own: the citation    *)
(* is a head, up to MaxItems list items with one kind of separator between *)
(* them and an optional parenthetical; it is expanded and every expanded   *)
(* reference classified (resolve_sources, lines 219-225), or classified as *)
(* it stands (template_parser.py, line 227).                               *)
(***************************************************************************)
MaxItems == 3

CitationHeads ==
    {<<"IB", " ", "Section", " ">>, <<"ib", " ", "sections", " ">>,
     <<"PBRER", " ">>, <<"PBRER", " ", "Sections", " ">>,
     <<"IB", " ", "Table", " ">>, <<"ib", " ", "table", " ">>,
     <<"IB", " ">>, <<"UpToDate", " ">>, <<"PBRER", " ", "medline", " ">>,
     <<"x", " ">>}

CitationItems ==
    {<<"1", ".", "2">>, <<"3">>, <<"Table", " ", "5">>,
     <<"PBRER", " ", "1", ".", "1">>, <<"x">>}

CitationSeparators == {<<",", " ">>, <<" ", "&", " ">>, <<"/">>, <<" ", "and", " ">>}

CitationTails ==
    {<<>>, <<" ", "(", "x", ")">>, <<" ", "(", "x", " ", "(", "x", ")", ")">>}

RECURSIVE JoinItems(_, _)
JoinItems(items, sep) ==
    IF items = <<>> THEN <<>>
    ELSE IF Len(items) = 1 THEN items[1]
    ELSE items[1] \o sep \o JoinItems(Tail(items), sep)

InitCitation ==
    /\ NoMapping /\ NoResolution /\ NoVectorStore /\ NoChunkCall
    /\ \E head \in CitationHeads, sep \in CitationSeparators, tail \in CitationTails :
           \E items \in SeqsUpTo(CitationItems, MaxItems) :
               citation = head \o JoinItems(items, sep) \o tail
    /\ extracted = <<>> /\ cleanings = <<>>
    /\ refs = <<>> /\ kinds = <<>>
    /\ pc = "cite"

\* expanded.extend(_expand_compound_refs(ref))
Expand ==
    /\ pc = "cite"
    /\ refs' = _expand_compound_refs(citation)
    /\ pc' = "expanded"
    /\ UNCHANGED <<extracted, cleanings, citation, kinds>>
    /\ UNCHANGED <<mapper_vars, resolver_vars, store_vars, chunk_vars>>

\* for ref in expanded: source_type, section_num = classify_source(ref)
ClassifyExpanded ==
    /\ pc = "expanded"
    /\ kinds' = [i \in 1..Len(refs) |-> classify_source(refs[i])]
    /\ pc' = "classified"
    /\ UNCHANGED <<extracted, cleanings, citation, refs>>
    /\ UNCHANGED <<mapper_vars, resolver_vars, store_vars, chunk_vars>>

\* source_type, _ = classify_source(ref) on the citation as written
Classify ==
    /\ pc = "cite"
    /\ kinds' = <<classify_source(citation)>>
    /\ pc' = "classified"
    /\ UNCHANGED <<extracted, cleanings, citation, refs>>
    /\ UNCHANGED <<mapper_vars, resolver_vars, store_vars, chunk_vars>>

NextCitation == Expand \/ ClassifyExpanded \/ Classify

SpecCitation == InitCitation /\ [][NextCitation]_vars

\* the text without its parentheticals, a parenthetical being a balanced
\* pair of parentheses with all it holds
RECURSIVE Unparenthesised(_, _)
Unparenthesised(s, depth) ==
    IF s = <<>> THEN <<>>
    ELSE IF Head(s) = "(" THEN Unparenthesised(Tail(s), depth + 1)
    ELSE IF depth > 0
         THEN Unparenthesised(Tail(s), IF Head(s) = ")" THEN depth - 1 ELSE depth)
         ELSE <<Head(s)>> \o Unparenthesised(Tail(s), 0)

\* 'IB Section(s) <list>' or 'PBRER [Section(s)] <list>': the family and the
\* list of a citation t of that form, the family None for any other text
CitedList(t) ==
    LET i1 == SkipSpaces(t, 1)
        i2 == SkipSpaces(t, i1 + 1)
        keyword == HasKeyword(t, i2, {"section", "sections"})
    IN  IF HasKeyword(t, i1, {"ib"}) /\ keyword
        THEN [family |-> "ib", prefix |-> <<"IB", " ", "Section", " ">>,
              list |-> Suffix(t, i2 + 1)]
        ELSE IF HasKeyword(t, i1, {"pbrer"})
        THEN [family |-> "pbrer", prefix |-> <<"PBRER", " ">>,
              list |-> Suffix(t, IF keyword THEN i2 + 1 ELSE i1 + 1)]
        ELSE [family |-> None, prefix |-> <<>>, list |-> <<>>]

\* C22: a citation 'IB Section(s) <list>' or 'PBRER [Section(s)] <list>'
\* whose list, its parenthetical ignored, holds two or more dotted-decimal
\* numbers separated by comma, ampersand, slash or 'and' expands to one
\* qualified citation per number in input order; a citation of that form with
\* fewer than two numbers, an 'IB Table' reference and a string that names
\* neither IB nor PBRER come back as the one-element list of the text itself.
C22_ExpandsListOfNumbers ==
    refs # <<>> =>
        LET cited == CitedList(Unparenthesised(citation, 0))
            numbers == QualifiedRefs(SplitList(cited.list, 1, <<>>), 1, cited.prefix)
            first == SkipSpaces(citation, 1)
        IN  /\ (cited.family # None /\ Len(numbers) >= 2) => refs = numbers
            /\ (cited.family # None /\ Len(numbers) < 2) => refs = <<citation>>
            /\ _IB_TABLE_RE(citation) # NoMatch => refs = <<citation>>
            /\ ~HasKeyword(citation, first, {"ib", "pbrer"}) => refs = <<citation>>

\* the text a classification is of: the citation as written, or the i-th
\* expanded reference
Classified(i) == IF refs = <<>> THEN citation ELSE refs[i]

\* C23: classify_source returns a result for every text, and it is the result
\* of the first rule, in the order IB section, IB table, bare IB, PBRER
\* section, PBRER prefix, external keyword, that matches the trimmed text
\* without regard to letter case: 'IB Table n' is (ib_table, n) and never
\* (ib, ...), a text beginning with PBRER that is no PBRER section is
\* (pbrer, None) even when it holds an external keyword, and a text no rule
\* matches is (unknown, None).
C23_FirstMatchingRule ==
    pc = "classified" =>
        \A i \in 1..Len(kinds) :
            LET t == Classified(i)
                k == kinds[i]
                stripped == strip(t)
                ib_section == _IB_SECTION_RE(t) # NoMatch
                ib_table == _IB_TABLE_RE(t) # NoMatch
                ib_bare == _IB_BARE_RE(t)
                pbrer_section == _PBRER_SECTION_RE(t) # NoMatch
                pbrer_prefix == stripped # <<>> /\ lower(stripped[1]) = "pbrer"
                keyword == \E kw \in _EXTERNAL_KEYWORDS :
                               IsSubstring(kw, lowerSeq(stripped))
            IN  /\ k[1] \in {"ib", "ib_table", "pbrer", "external", "unknown"}
                /\ ib_section => k = <<"ib", _IB_SECTION_RE(t)>>
                /\ ib_table => k = <<"ib_table", _IB_TABLE_RE(t)>>
                /\ (ib_bare /\ ~ib_section /\ ~ib_table) => k = <<"ib", NoneText>>
                /\ (pbrer_section /\ ~ib_section /\ ~ib_table /\ ~ib_bare)
                       => k = <<"pbrer", _PBRER_SECTION_RE(t)>>
                /\ (pbrer_prefix /\ ~pbrer_section) => k = <<"pbrer", NoneText>>
                /\ (keyword /\ ~ib_section /\ ~ib_table /\ ~ib_bare /\ ~pbrer_prefix)
                       => k = <<"external", NoneText>>
                /\ ~(ib_section \/ ib_table \/ ib_bare \/ pbrer_prefix \/ keyword)
                       => k = <<"unknown", NoneText>>

\* a text beginning with PBRER that holds the keyword medline has been
\* classified (pbrer, None)
C23_Witness ==
    /\ pc = "classified" /\ refs = <<>>
    /\ citation[1] = "PBRER" /\ IsSubstring(<<"medline">>, citation)
    /\ kinds = << <<"pbrer", NoneText>> >>

\* the dotted-decimal numbers among the items of a list, in order
RECURSIVE NumbersAmong(_, _)
NumbersAmong(items, i) ==
    IF i > Len(items) THEN <<>>
    ELSE (IF IsDottedNumber(strip(items[i])) THEN <<strip(items[i])>> ELSE <<>>)
             \o NumbersAmong(items, i + 1)

\* C29: when _expand_compound_refs expands (returns more than one element)
\* its output holds exactly one element per list item that is a
\* dotted-decimal number, in order, and classify_source maps the element of
\* the number n to (ib, n) in an IB list and to (pbrer, n) in a PBRER list;
\* an item that is no number ('Table 5', 'PBRER 1.1', a plain word) yields no
\* element.  The list is the one the source splits, its parentheticals
\* removed as the source removes them.
C29_ExpansionMatchesClassifier ==
    (pc = "classified" /\ Len(refs) > 1) =>
        LET cited == CitedList(strip(RemoveParentheticals(strip(citation))))
            numbers == NumbersAmong(SplitList(cited.list, 1, <<>>), 1)
        IN  /\ cited.family # None
            /\ Len(refs) = Len(numbers)
            /\ Len(kinds) = Len(numbers)
            /\ \A i \in 1..Len(numbers) : kinds[i] = <<cited.family, numbers[i]>>

\* a PBRER list holding 'Table 5' among its items has been expanded to two
\* elements, both classified pbrer
C29_Witness ==
    /\ pc = "classified" /\ Len(refs) = 2
    /\ citation[1] = "PBRER" /\ IsSubstring(<<"Table", " ", "5">>, citation)
    /\ kinds[1][1] = "pbrer" /\ kinds[2][1] = "pbrer"

(***************************************************************************)
(* resolve_sources on one table or external citation, the primary index    *)
(* holding up to MaxEntries texts that name tables in various ways, the    *)
(* literature index absent or holding up to MaxEntries keys.               *)
(***************************************************************************)
MaxEntries == 2

LookupCitations ==
    {<<"IB", " ", "Table", " ", "3">>, <<"ib", " ", "table", " ", "3", "0">>,
     <<"IB", " ", "Table", " ", "5">>,
     <<"UpToDate">>, <<" ", "uptodate", " ", "x">>, <<"medline">>,
     <<"x", " ", "medline", " ", "x">>}

TableTexts ==
    {<<"Table", " ", "3", " ", "x">>, <<"Table", " ", "3", "0">>,
     <<"table", " ", "3">>, <<"x", "Table", " ", "3">>,
     <<"CONFIDENTIAL", "\n", "x", " ", "Table", " ", "3", ".">>,
     <<"Table", " ", " ", "3">>}

LiteratureKeys ==
    {<<"UpToDate">>, <<"uptodate", " ", "x", " ", "x">>, <<"medline">>, <<"x">>,
     <<"embase">>}

\* the i-th key of the primary index
SectionKey(i) == <<"1", ".", ToString(i)>>

LookupIbIndexes ==
    {[i \in 1..Len(texts) |-> <<SectionKey(i), texts[i]>>] :
         texts \in SeqsUpTo(TableTexts, MaxEntries)}

\* a dict holds a key once
LookupLiterature ==
    {NoIndex} \cup
    {Index([i \in 1..Len(keys) |-> <<keys[i], <<"Dosing", " ">> \o keys[i]>>]) :
         keys \in {ks \in SeqsUpTo(LiteratureKeys, MaxEntries) :
                       \A i, j \in 1..Len(ks) : ks[i] = ks[j] => i = j}}

InitLookup ==
    /\ NoMapping /\ NoVectorStore /\ NoTextCall /\ NoChunkCall
    /\ \E c \in LookupCitations : required_sources = <<c>>
    /\ ib_index \in LookupIbIndexes
    /\ pbrer_index = NoIndex
    /\ literature_results \in LookupLiterature
    /\ results = <<>>
    /\ pc = "resolve"

SpecLookup == InitLookup /\ [][NextResolve]_vars

\* the first (in insertion order) of the entries numbered in hits
FirstOf(hits) == CHOOSE i \in hits : \A h \in hits : i <= h

\* the text holds the word Table, `gap` blanks and the number n, with a word
\* boundary before and after
NamesTable(content, n, gap) ==
    \E i \in 1..Len(content) :
        /\ content[i] = "Table"
        /\ (i = 1 \/ ~WordAtEnd(content[i - 1]))
        /\ i + gap + Len(n) <= Len(content)
        /\ \A j \in (i + 1)..(i + gap) : IsSpace(content[j])
        /\ SubSeq(content, i + gap + 1, i + gap + Len(n)) = n
        /\ (i + gap + Len(n) = Len(content)
               \/ ~WordAtStart(content[i + gap + Len(n) + 1]))

\* the record of a table citation follows the scan for the entries in hits
TableRecord(n, hits) ==
    LET r == results[1] IN
    IF hits # {}
    THEN r.found /\ r.content = clean_source_text(ib_index[FirstOf(hits)][2])
    ELSE /\ ~r.found
         /\ r.content[1] = NEEDED
         /\ IsSubstring(<<"Table", " ">> \o n, r.content)

C25_LiteratureFirstKey ==
    (pc = "resolved" /\ classify_source(required_sources[1])[1] = "external") =>
        LET cited == strip(required_sources[1])
            items == literature_results.items
            hits == {i \in 1..Len(items) :
                        \/ IsSubstring(lowerSeq(items[i][1]), lowerSeq(cited))
                        \/ IsSubstring(lowerSeq(cited), lowerSeq(items[i][1]))}
            r == results[1]
        IN  IF literature_results.given /\ hits # {}
            THEN r.found /\ r.content = items[FirstOf(hits)][2]
            ELSE /\ ~r.found
                 /\ r.content[1] = NEEDED
                 /\ IsSubstring(cited \o <<"' key">>, r.content)

\* ' uptodate x' with the keys embase and 'uptodate x x': the second key
\* holds the citation, and its entry is returned
C25_Witness ==
    /\ pc = "resolved"
    /\ required_sources = << <<" ", "uptodate", " ", "x">> >>
    /\ literature_results.given
    /\ Len(literature_results.items) = 2
    /\ literature_results.items[1][1] = <<"embase">>
    /\ literature_results.items[2][1] = <<"uptodate", " ", "x", " ", "x">>
    /\ results[1].found
    /\ results[1].content = <<"Dosing", " ", "uptodate", " ", "x", " ", "x">>

\* C30: every record resolve_sources returns carries the source_type and
\* section_num that classify_source gives for its original_ref, except the
\* record of an IB Table reference, which carries source_type 'ib' and
\* section_num None whether or not the table was found.
C30_RecordCarriesClassification ==
    pc = "resolved" =>
        \A i \in 1..Len(results) :
            LET r == results[i]
                k == classify_source(r.original_ref)
            IN  IF k[1] = "ib_table"
                THEN r.source_type = "ib" /\ r.section_num = NoneText
                ELSE r.source_type = k[1] /\ r.section_num = k[2]

\* two records, a table reference that was found (recorded as ib, no number)
\* and a PBRER section
C30_Witness ==
    /\ pc = "resolved" /\ Len(results) = 2
    /\ classify_source(results[1].original_ref)[1] = "ib_table"
    /\ results[1].found /\ results[1].source_type = "ib"
    /\ results[2].source_type = "pbrer" /\ results[2].section_num # NoneText

\* C26: between the calls of add_documents, search, save and load on an
\* instance, adds that raise and loads that return False included, its
\* number of vectors equals the length of its metadata list, and so no
\* search ends in an IndexError.
C26_VectorsMatchMetadata ==
    /\ \A s \in Instances : call[s] = "idle" => index[s] = Len(metadata[s])
    /\ returned.call = "search" => returned.raised # "IndexError"

\* C27: every record map_sections assigns in Pass 0, Pass 1 or Pass 2
\* (methods mapping_table, exact_title, title_match, vector_similarity) names
\* a member of template_sections: its template_section is that member's
\* section_id and its template_title that member's title.
C27_AssignedToListedTemplate ==
    pc \notin {"direct", "direct_again", "direct_done"} =>
        \A n \in DOMAIN mappings :
            mappings[n].match_method \in
                {"mapping_table", "exact_title", "title_match", "vector_similarity"}
            => \E i \in 1..Len(template_sections) :
                   /\ template_sections[i].section_id = mappings[n].template_section
                   /\ template_sections[i].title = mappings[n].template_title

(***************************************************************************)
(* chunker.py: chunk_text, one action per loop iteration.  The encoding    *)
(* (tiktoken) is an external library: it is taken to give one token per    *)
(* symbol of the text, decode being its inverse.                           *)
(***************************************************************************)
MaxTokens == 3
MaxSize == 2
MaxChunks == 4

ChunkSymbols == {"x", " "}

\* enc.encode(text) and enc.decode(tokens)
encode(text) == [i \in 1..Len(text) |-> IF text[i] = "x" THEN 87 ELSE 220]
decode(toks) == [i \in 1..Len(toks) |-> IF toks[i] = 87 THEN "x" ELSE " "]

\* seq[a:b] of Python: a negative offset counts from the end, offsets are
\* clamped to the sequence, offsets count from 0
PyOffset(s, i) == IF i < 0 THEN (IF i + Len(s) < 0 THEN 0 ELSE i + Len(s))
                  ELSE Min(i, Len(s))
PySlice(s, a, b) == SubSeq(s, PyOffset(s, a) + 1, PyOffset(s, b))

\* the advance of one iteration (lines 54-56)
chunk_step(size, lap) == IF size - lap <= 0 THEN size ELSE size - lap

InitChunk ==
    /\ NoMapping /\ NoResolution /\ NoVectorStore
    /\ extracted \in SeqsUpTo(ChunkSymbols, MaxTokens)
    /\ cleanings = <<>> /\ citation = <<>> /\ refs = <<>> /\ kinds = <<>>
    /\ chunk_size \in (-1)..MaxSize
    /\ overlap \in (-1)..(MaxSize + 1)
    /\ tokens = <<>> /\ start = 0 /\ chunks = <<>>
    /\ pc = "chunk"

\* lines 26-36: blank text and an empty encoding return [] at once
Encode ==
    /\ pc = "chunk"
    /\ IF strip(extracted) = <<>> \/ encode(extracted) = <<>>
       THEN tokens' = <<>> /\ pc' = "returned"
       ELSE tokens' = encode(extracted) /\ pc' = "loop"
    /\ UNCHANGED <<chunk_size, overlap, start, chunks>>
    /\ UNCHANGED <<mapper_vars, resolver_vars, store_vars, text_vars>>

\* lines 37-57: one iteration of `while start < len(tokens)`
ChunkLoop ==
    /\ pc = "loop"
    /\ start < Len(tokens)
    /\ Len(chunks) < MaxChunks
    /\ LET end == Min(start + chunk_size, Len(tokens))
           chunk_tokens == PySlice(tokens, start, end)
           chunk_text_str == decode(chunk_tokens)
           start_char == IF start > 0 THEN Len(decode(PySlice(tokens, 0, start)))
                         ELSE 0
       IN  chunks' = Append(chunks,
                         [text |-> chunk_text_str,
                          start_char |-> start_char,
                          end_char |-> start_char + Len(chunk_text_str),
                          token_count |-> Len(chunk_tokens)])
    /\ start' = start + chunk_step(chunk_size, overlap)
    /\ UNCHANGED <<tokens, chunk_size, overlap, pc>>
    /\ UNCHANGED <<mapper_vars, resolver_vars, store_vars, text_vars>>

\* line 59: the loop condition fails
ChunkReturn ==
    /\ pc = "loop"
    /\ ~(start < Len(tokens))
    /\ pc' = "returned"
    /\ UNCHANGED <<tokens, chunk_size, overlap, start, chunks>>
    /\ UNCHANGED <<mapper_vars, resolver_vars, store_vars, text_vars>>

NextChunk == Encode \/ ChunkLoop \/ ChunkReturn

SpecChunk == InitChunk /\ [][NextChunk]_vars

\* C28: chunk_text terminates for every text, chunk_size and overlap,
\* overlap >= chunk_size included: every loop iteration strictly increases
\* the start offset and emits a chunk of at most chunk_size tokens.
C28_StartStrictlyIncreases ==
    [][ChunkLoop => /\ start' > start
                    /\ chunks'[Len(chunks')].token_count <= chunk_size]_vars

====
